---- MODULE Spec2Model ----
(***************************************************************************)
(* The plugin lifecycle orchestrator of @heoplatform/vite-plugin           *)
(* (vitePlugin(), src/unnamed/part_001 lines 477-857) as a state machine.  *)
(*                                                                         *)
(* One execution context (the Node event loop).  A process is suspended    *)
(* only at an `await`; an action of this module is "the pending await of   *)
(* one process resolves and its code runs synchronously up to its next     *)
(* await".  The processes are postInitExpress (the main flow) and the      *)
(* runs of reloadPlugins: run 1 is the one restartServer awaits, the       *)
(* others are started by the dev server's handleHotUpdate callback.        *)
(***************************************************************************)
EXTENDS Integers, Sequences, FiniteSets, TLC

\* ---------------------------------------------------------------- bounds
MaxPlugins == 2        \* longest registered plugin list explored
MaxHotUpdates == 1     \* hot-update notifications delivered by the dev server
MaxEdges == 3          \* most import edges of a module graph explored
MaxEntries == 2        \* longest entry list passed to getDeps

\* ------------------------------------------------------ program constants
DefaultPort == 5173    \* expressPlugin?.port ?? 5173

MaxRuns == MaxHotUpdates + 1

\* ----------------------------------------------------------------- state
VARIABLES
  argv,                \* minimist(process.argv.slice(2)): [build, preview]
  NODE_ENV,            \* process.env.NODE_ENV when vitePlugin() was called
  registered,          \* the host's plugin list as handed to init()
  dist,                \* ./.vite/dist/server of an earlier build, read by import()
  plugins,             \* let plugins: the shared plugin list
  vite,                \* let vite: 0 is undefined, else the dev-server handle
  router,              \* middleware mounted on the express.Router
  isProduction,        \* let isProduction
  appUse,              \* middleware mounted on the host application
  stopCalls,           \* number of calls of the stop callback
  templateHtmlPromise, \* let templateHtmlPromise
  initVite,            \* let initVite: the RuntimeContext (id 0 is undefined)
  ctxCount,            \* RuntimeContext objects constructed so far
  scaffold,            \* the files createViteEnvironment wrote under ./.vite
  pc,                  \* where postInitExpress (or the host before it) stands
  hooks,               \* the result of getRelevantHooks() held by postInitExpress
  foldPass,            \* which config is being folded: "dev", "client", "ssr"
  viteConfig,          \* let viteConfig of getViteDevConfig / getViteProdConfig
  hookIdx,             \* index of the hook the main flow awaits
  runs,                \* the runs of reloadPlugins
  nRuns,               \* runs started so far
  log,                 \* events of the main flow, in order
  received,            \* what each configureVite call received and returned
  materialized,        \* the calls of createViteEnvironment, in order
  toolCalls,           \* the calls of createServer and build, in order
  observed             \* what hooks read through the RuntimeContext

envVars == <<argv, NODE_ENV, registered, dist>>
hostVars == <<router, appUse, stopCalls, templateHtmlPromise>>
ctxVars == <<initVite, ctxCount>>
foldVars == <<hooks, foldPass, viteConfig, hookIdx>>
histVars == <<log, received, materialized, toolCalls>>

\* The dependency resolver (preload.ts) and what it reads.
VARIABLES
  manifestFile,        \* ./.vite/dist/client/.vite/ssr-manifest.json on disk
  moduleGraph,         \* the module graph of the dev server a caller holds
  loaded,              \* whether preload.ts was imported: "no", "yes", "threw"
  manifestJson,        \* const manifestJson of preload.ts
  call,                \* the first call of getDeps: arguments and outcome
  recall               \* the same call made once more: arguments and outcome

depsVars == <<manifestFile, moduleGraph, loaded, manifestJson, call, recall>>

\* The HTML templating (generateHTMLTemplate, generateHeadContent).
VARIABLES
  distIndexHtml,       \* the content of ./.vite/dist/client/index.html
  cachedHtml,          \* what templateHtmlPromise resolves to
  io,                  \* file reads, HTML transforms and templating calls so far
  page                 \* the latest templating call: arguments and outcome

htmlVars == <<distIndexHtml, cachedHtml, io, page>>

\* The working directory ./.vite that createViteEnvironment writes.
VARIABLES
  fs,                  \* ./.vite: whether it exists and the files in it
  envCalls             \* the calls of createViteEnvironment and what each left

fsVars == <<fs, envCalls>>

\* injectVite and the list it is handed.
VARIABLES
  hostList,            \* the plugin list handed to injectVite
  givenList,           \* the list as it was before the first call
  orchestrators,       \* the objects vitePlugin() returned to injectVite
  injections           \* where each call of injectVite stands

injVars == <<hostList, givenList, orchestrators, injections>>

orchVars == <<envVars, hostVars, ctxVars, foldVars, histVars, plugins, vite, isProduction,
              scaffold, pc, runs, nRuns, observed>>

vars == <<orchVars, depsVars, htmlVars, fsVars, injVars, injVars>>

\* --------------------------------------------------------------- plugins
\* A plugin object.  gen 0 is a plugin registered by the host; gen r > 0 is an
\* instance created by run r of reloadPlugins.  A hook that is absent is
\* "none" / FALSE.
Plugin(name, gen, side, idx, cfg, iv, piv, ini, pini, port) ==
  [name |-> name, gen |-> gen, side |-> side, idx |-> idx, _vitePlugin |-> FALSE,
   configureVite |-> cfg, initVite |-> iv, postInitVite |-> piv,
   init |-> ini, postInit |-> pini, port |-> port]

\* The host plugins the model registers, in a fixed catalogue order.
\*   boot     : the README's bootstrap plugin (configureVite, initVite, postInitVite)
\*   cfgB     : configureVite and postInitVite
\*   postOnly : a ViteHooks plugin whose only hook is postInitVite
\*   initOnly : a ViteHooks plugin whose only hook is initVite
\*   express  : the cooperating express plugin (no vite hooks, a port)
\*   bare     : the object {} (no hooks, no port)
PluginCatalog ==
  << Plugin("boot", 0, "host", 1, "pushA", TRUE, TRUE, FALSE, FALSE, 0),
     Plugin("cfgB", 0, "host", 2, "pushB", FALSE, TRUE, FALSE, FALSE, 0),
     Plugin("postOnly", 0, "host", 3, "none", FALSE, TRUE, FALSE, FALSE, 0),
     Plugin("initOnly", 0, "host", 4, "none", TRUE, FALSE, FALSE, FALSE, 0),
     Plugin("express", 0, "host", 5, "none", FALSE, FALSE, FALSE, FALSE, 3000),
     Plugin("bare", 0, "host", 6, "none", FALSE, FALSE, FALSE, FALSE, 0) >>

\* The subsequence of s at the positions in the set idxs.
RECURSIVE SubSeqAt(_, _, _)
SubSeqAt(s, idxs, i) ==
  IF i > Len(s) THEN <<>>
  ELSE (IF i \in idxs THEN <<s[i]>> ELSE <<>>) \o SubSeqAt(s, idxs, i + 1)

PluginLists ==
  { SubSeqAt(PluginCatalog, idxs, 1) :
      idxs \in { S \in SUBSET (1..Len(PluginCatalog)) : Cardinality(S) <= MaxPlugins } }

\* The instance a generated registry's factory creates for module specifier m.
\* Module "a" has both sub-lifecycle hooks; the client half of "b" has postInit
\* only (both hooks are optional in ClientBaseHooks / SSRBaseHooks).
ModuleInstance(m, gen, side, idx) ==
  Plugin(m, gen, side, idx, "none", FALSE, FALSE, m = "a", TRUE, 0)

\* ---------------------------------------------------------- pure helpers
\* pluginHasViteHooks(plugin)
pluginHasViteHooks(plugin) ==
  plugin.configureVite # "none" \/ plugin.initVite

\* Faulty variant: the hooks are not filtered, absent ones are kept
isTruthy_unfiltered(plugin, hook) == TRUE

\* isTruthy(p.configureVite), isTruthy(p.initVite), isTruthy(p.postInitVite)
isTruthy(plugin, hook) ==
  CASE hook = "configureVite" -> plugin.configureVite # "none"
    [] hook = "initVite" -> plugin.initVite
    [] hook = "postInitVite" -> plugin.postInitVite

\* plugins.filter(pluginHasViteHooks).map((p) => p[hook]).filter(isTruthy), as
\* the positions in list of the plugins whose hook is kept, from position i on.
RECURSIVE RelevantHooks(_, _, _)
RelevantHooks(list, hook, i) ==
  IF i > Len(list) THEN <<>>
  ELSE (IF pluginHasViteHooks(list[i]) /\ isTruthy(list[i], hook) THEN <<i>> ELSE <<>>)
         \o RelevantHooks(list, hook, i + 1)

\* getRelevantHooks(): for each kind of hook the positions (in the plugin
\* list) of the plugins whose hook is called, in list order.
getRelevantHooks ==
  [configureViteHooks |-> RelevantHooks(plugins, "configureVite", 1),
   initViteHooks |-> RelevantHooks(plugins, "initVite", 1),
   postInitViteHooks |-> RelevantHooks(plugins, "postInitVite", 1)]

NoHooks == [configureViteHooks |-> <<>>, initViteHooks |-> <<>>, postInitViteHooks |-> <<>>]

\* Faulty variant: the SSR pass of a build starts from the module lists the
\* client pass ended with
InitialConfig_carried(pass) ==
  [config |->
     [kind |-> IF pass = "dev" THEN "dev" ELSE "prod",
      ssr |-> (pass = "ssr"),
      outDir |-> CASE pass = "ssr" -> "./dist/server"
                   [] pass = "client" -> "./dist/client"
                   [] OTHER -> "",
      plugins |-> IF pass = "dev" THEN <<"vite-plugin-reload">> ELSE <<>>],
   clientPluginModules |-> IF pass = "ssr" THEN viteConfig.clientPluginModules ELSE <<>>,
   serverPluginModules |-> IF pass = "ssr" THEN viteConfig.serverPluginModules ELSE <<>>]

\* The initial value of viteConfig in getViteDevConfig (pass "dev") and
\* getViteProdConfig(ssr) (passes "client" and "ssr").
InitialConfig(pass) ==
  [config |->
     [kind |-> IF pass = "dev" THEN "dev" ELSE "prod",
      ssr |-> (pass = "ssr"),
      outDir |-> CASE pass = "ssr" -> "./dist/server"
                   [] pass = "client" -> "./dist/client"
                   [] OTHER -> "",
      plugins |-> IF pass = "dev" THEN <<"vite-plugin-reload">> ELSE <<>>],
   clientPluginModules |-> <<>>,
   serverPluginModules |-> <<>>]

NoConfig == InitialConfig("none")

\* What a plugin's configureVite hook returns for the config it receives.
\*   pushA : the README's bootstrap hook: one client module, one server
\*           module and one bundler plugin appended
\*   pushB : one client module appended
ConfigureVite(fn, cfg) ==
  CASE fn = "pushA" ->
         [config |-> [cfg.config EXCEPT !.plugins = Append(@, "pa")],
          clientPluginModules |-> Append(cfg.clientPluginModules, "a"),
          serverPluginModules |-> Append(cfg.serverPluginModules, "a")]
    [] fn = "pushB" ->
         [cfg EXCEPT !.clientPluginModules = Append(@, "b")]
    [] OTHER -> cfg

\* Faulty variant: mode is a plain field, set when the context is constructed
CtxMode_captured == IF NODE_ENV = "production" THEN "prod" ELSE "dev"

\* The getters of the RuntimeContext: get mode(), get server().
CtxMode == IF isProduction THEN "prod" ELSE "dev"
CtxServer == vite

NoCtx == [id |-> 0, port |-> 0]

\* What a holder of the RuntimeContext ctx reads from it now.  truthProd and
\* truthVite record the orchestrator's own isProduction and vite at that time.
Observation(who, ctx) ==
  [who |-> who, ctx |-> ctx.id, mode |-> CtxMode, server |-> CtxServer,
   truthProd |-> isProduction, truthVite |-> vite]

\* ------------------------------------------------------------------ Init
\* The state right after vitePlugin() returned.
\* A run of reloadPlugins: pc is the await it is suspended at, all is
\* clientPluginManager followed by serverPluginManager, k the position in all of
\* the instance whose hook is awaited, log the run's hook calls and returns.
\* overlapped is history: another run was in flight at some time during this one.
NoRun == [pc |-> "idle", all |-> <<>>, k |-> 0, log |-> <<>>, overlapped |-> FALSE]

NoModules == [client |-> <<>>, server |-> <<>>]

\* What an earlier `--build` left in ./.vite/dist/server (read only when serving
\* in production mode).
DistChoices == { NoModules, [client |-> <<"a", "b">>, server |-> <<"a">>] }

\* process.cwd()
cwd == "/app"

\* A module graph has three modules; unless stated otherwise their ids are
\* the scaffold's client entry, a file of a scoped third-party package, and a
\* file in the dependency-optimization cache directory.
NodeId(n) ==
  CASE n = 1 -> cwd \o "/.vite/client.ts"
    [] n = 2 -> cwd \o "/node_modules/@vue/shared/index.js"
    [] OTHER -> cwd \o "/node_modules/.vite/deps/x.js"

\* No manifest file, a module graph without edges, no call made.
AbsentFile == [exists |-> FALSE, wellFormed |-> TRUE, entries |-> <<>>]
EmptyGraph == [imports |-> <<<<>>, <<>>, <<>>>>, fault |-> "none",
               ids |-> <<NodeId(1), NodeId(2), NodeId(3)>>]
NoCall == [via |-> "none", modules |-> <<>>, withServer |-> FALSE, isProduction |-> FALSE,
           deps |-> <<>>, warnings |-> <<>>, lookups |-> <<>>, raised |-> FALSE]

\* The resolver before preload.ts is imported.
ResolverIdle ==
  /\ manifestFile = AbsentFile
  /\ moduleGraph = EmptyGraph
  /\ loaded = "no"
  /\ manifestJson = <<>>
  /\ call = NoCall
  /\ recall = NoCall

\* The index.html a build of the scaffold leaves in dist/client: the shell
\* with the client entry replaced by the built asset.
BuiltIndexHtml ==
  "<!DOCTYPE html>\n<html lang=\"en\">\n  <head>\n    <!--app-head-->\n"
  \o "    <script type=\"module\" crossorigin src=\"/assets/index-1a2b.js\"></script>\n"
  \o "  </head>\n  <body>\n    <div id=\"app\"><!--app-html--></div>\n  </body>\n</html>"

NoIo == [indexReads |-> 0, transforms |-> 0, distReads |-> 0, calls |-> 0]
NoPage == [fn |-> "none", url |-> "", head |-> "", body |-> "", template |-> "",
           threw |-> FALSE, out |-> ""]

\* No templating call made, the production shell not read.
HtmlIdle ==
  /\ distIndexHtml = BuiltIndexHtml
  /\ cachedHtml = ""
  /\ io = NoIo
  /\ page = NoPage

\* ------------------------------------------------ createViteEnvironment
\* const indexHtml of createViteEnvironment: the content of ./.vite/index.html
indexHtml ==
  "<!DOCTYPE html>\n<html lang=\"en\">\n  <head>\n    <!--app-head-->\n"
  \o "    <script type=\"module\" src=\"/client.ts\"></script>\n"
  \o "  </head>\n  <body>\n    <div id=\"app\"><!--app-html--></div>\n  </body>\n</html>"

\* The decimal digits, for "plugin" + i.
Digits == <<"0", "1", "2", "3", "4", "5", "6", "7", "8", "9">>

\* String(i) of a non-negative integer
RECURSIVE NumberToString(_)
NumberToString(i) ==
  IF i < 10 THEN Digits[i + 1]
  ELSE NumberToString(i \div 10) \o Digits[(i % 10) + 1]

\* Faulty variant: the alias is derived from the module specifier
Alias_bySpecifier(p, i) == "plugin_" \o p

\* (p, i) => "plugin" + i
Alias(p, i) == "plugin" \o NumberToString(i)

\* obj[key] = value on an object held as the list of its entries in
\* insertion order: an existing key keeps its place and takes the new value.
SetProperty(obj, key, value) ==
  IF \E k \in DOMAIN obj : obj[k].key = key
  THEN [k \in DOMAIN obj |->
          IF obj[k].key = key THEN [key |-> key, value |-> value] ELSE obj[k]]
  ELSE Append(obj, [key |-> key, value |-> value])

\* Object.fromEntries(modules.map((p, i) => ["plugin" + i, p])), from the
\* module at 1-based position k on
RECURSIVE ModuleMapFrom(_, _, _)
ModuleMapFrom(modules, k, obj) ==
  IF k > Len(modules) THEN obj
  ELSE ModuleMapFrom(modules, k + 1,
                     SetProperty(obj, Alias(modules[k], k - 1), modules[k]))

ModuleMap(modules) == ModuleMapFrom(modules, 1, <<>>)

\* Object.entries(map).map(([key, value]) => `import ${key} from '${value}';`)
\*   .join("\n"), from entry k on
RECURSIVE ImportLines(_, _)
ImportLines(map, k) ==
  IF k > Len(map) THEN ""
  ELSE "import " \o map[k].key \o " from '" \o map[k].value \o "';"
       \o (IF k < Len(map) THEN "\n" ELSE "") \o ImportLines(map, k + 1)

\* Object.keys(map).map(key => `${key}()`).join(", "), from entry k on
RECURSIVE FactoryCalls(_, _)
FactoryCalls(map, k) ==
  IF k > Len(map) THEN ""
  ELSE map[k].key \o "()" \o (IF k < Len(map) THEN ", " ELSE "")
       \o FactoryCalls(map, k + 1)

\* const serverTs
serverTs(serverModuleMap) ==
  ImportLines(serverModuleMap, 1)
  \o "\n\nconst getServerPlugins = () => [" \o FactoryCalls(serverModuleMap, 1)
  \o "];\n\n\nexport default getServerPlugins;"

\* const clientPluginsTs
clientPluginsTs(clientModuleMap) ==
  ImportLines(clientModuleMap, 1)
  \o "\n\nconst getClientPlugins = () => [" \o FactoryCalls(clientModuleMap, 1)
  \o "];\n\nexport default getClientPlugins;"

\* const clientTs
clientTs ==
  "import { initPlugins } from '@heoplatform/base-plugin-system';\n"
  \o "import getClientPlugins from './clientPlugins.ts';\n"
  \o "initPlugins(getClientPlugins());"

\* ./.vite absent.
NoDir == [exists |-> FALSE, files |-> {}]

\* fs.writeFileSync(`${viteDir}/${name}`, content): the file is created or
\* replaced.
writeFileSync(dir, name, content) ==
  [exists |-> dir.exists,
   files |-> {f \in dir.files : f.name # name} \cup {[name |-> name, content |-> content]}]

\* if (!fs.existsSync(viteDir)) fs.mkdirSync(viteDir, { recursive: true })
mkdirSync(dir) == IF dir.exists THEN dir ELSE [exists |-> TRUE, files |-> {}]

\* createViteEnvironment(serverPluginModules, clientPluginModules) on the
\* directory dir: the directory after the call.
createViteEnvironment(dir, serverPluginModules, clientPluginModules) ==
  writeFileSync(
    writeFileSync(
      writeFileSync(
        writeFileSync(
          writeFileSync(mkdirSync(dir), "vite.config.js", "export default {}"),
          "index.html", indexHtml),
        "client.ts", clientTs),
      "clientPlugins.ts", clientPluginsTs(ModuleMap(clientPluginModules))),
    "server.ts", serverTs(ModuleMap(serverPluginModules)))

\* One call of createViteEnvironment and the directory it left.
EnvCall(serverPluginModules, clientPluginModules, dir) ==
  [serverPluginModules |-> serverPluginModules,
   clientPluginModules |-> clientPluginModules, fs |-> dir]

\* ./.vite before the plugin is started.
EnvIdle ==
  /\ fs = NoDir
  /\ envCalls = <<>>

\* injectVite not called.
InjectIdle ==
  /\ hostList = <<>>
  /\ givenList = <<>>
  /\ orchestrators = <<>>
  /\ injections = <<>>

Init ==
  /\ ResolverIdle
  /\ HtmlIdle
  /\ EnvIdle
  /\ InjectIdle
  /\ argv \in [build : BOOLEAN, preview : BOOLEAN]
  /\ NODE_ENV \in {"development", "production"}
  /\ registered \in PluginLists
  /\ dist \in DistChoices
  /\ plugins = <<>>
  /\ vite = 0
  /\ router = <<>>
  /\ isProduction = (NODE_ENV = "production")
  /\ appUse = <<>>
  /\ stopCalls = 0
  /\ templateHtmlPromise = "undefined"
  /\ initVite = NoCtx
  /\ ctxCount = 0
  /\ scaffold = NoModules
  /\ pc = "constructed"
  /\ hooks = NoHooks
  /\ foldPass = "none"
  /\ viteConfig = NoConfig
  /\ hookIdx = 0
  /\ runs = [r \in 1..MaxRuns |-> NoRun]
  /\ nRuns = 0
  /\ log = <<>>
  /\ received = <<>>
  /\ materialized = <<>>
  /\ toolCalls = <<>>
  /\ observed = {}

\* ------------------------------------------------- the reload sub-procedure
Min(S) == CHOOSE x \in S : \A y \in S : x <= y

\* Faulty variant: the purge removes every instance a registry module made,
\* marked or not
PurgeInjected_byGeneration(list) == SelectSeq(list, LAMBDA p : p.gen = 0)

\* for (let i = plugins.length - 1; i >= 0; i--) if (plugins[i]._vitePlugin) splice
PurgeInjected(list) == SelectSeq(list, LAMBDA p : ~p._vitePlugin)

\* The instances `module.default()` returns for the module list mods.
RECURSIVE Instantiate(_, _, _, _)
Instantiate(mods, gen, side, i) ==
  IF i > Len(mods) THEN <<>>
  ELSE <<ModuleInstance(mods[i], gen, side, i)>> \o Instantiate(mods, gen, side, i + 1)

\* The registry modules a run loads: the build output in production, the
\* scaffold through vite.ssrLoadModule in dev.
RegistrySource == IF isProduction THEN dist ELSE scaffold

SameObject(p, q) == p.gen = q.gen /\ p.side = q.side /\ p.idx = q.idx

\* plugin._vitePlugin = true for the objects all[from..to]; the shared list
\* holds the same objects.
TagIn(list, all, from, to) ==
  [i \in DOMAIN list |->
     IF \E j \in from..to : j <= Len(all) /\ SameObject(list[i], all[j])
     THEN [list[i] EXCEPT !._vitePlugin = TRUE]
     ELSE list[i]]

\* The first position after k of an instance that has an init / a postInit
\* hook; Len(all) + 1 if there is none.
NextInit(all, k) ==
  LET S == {j \in (k + 1)..Len(all) : all[j].init}
  IN IF S = {} THEN Len(all) + 1 ELSE Min(S)

NextPostInit(all, k) ==
  LET S == {j \in (k + 1)..Len(all) : all[j].postInit}
  IN IF S = {} THEN Len(all) + 1 ELSE Min(S)

Ev(what, hook, p) == <<what, hook, p.side, p.idx>>

\* Faulty variant: a single phase: an instance's postInit is called as soon as its own
\* init has returned
AfterInit_singlePhase(run, k) ==
  LET all == run.all
      j == NextInit(all, k)
      q == NextPostInit(all, 0)
  IN IF k >= 1 /\ all[k].postInit
     THEN [run EXCEPT !.pc = "postInit", !.log = Append(@, Ev("call", "postInit", all[k]))]
     ELSE IF j <= Len(all)
          THEN [run EXCEPT !.pc = "init", !.k = j,
                           !.log = Append(@, Ev("call", "init", all[j]))]
          ELSE IF q <= Len(all)
               THEN [run EXCEPT !.pc = "postInit", !.k = q,
                                !.log = Append(@, Ev("call", "postInit", all[q]))]
               ELSE [run EXCEPT !.pc = "done", !.k = 0]

\* The run's state once its code has run from "the hook at position k of the
\* init loops is finished" to its next await (or its end).
AfterInit(run, k) ==
  LET all == run.all
      j == NextInit(all, k)
      q == NextPostInit(all, 0)
  IN IF j <= Len(all)
     THEN [run EXCEPT !.pc = "init", !.k = j, !.log = Append(@, Ev("call", "init", all[j]))]
     ELSE IF q <= Len(all)
          THEN [run EXCEPT !.pc = "postInit", !.k = q,
                           !.log = Append(@, Ev("call", "postInit", all[q]))]
          ELSE [run EXCEPT !.pc = "done", !.k = 0]

\* The same for the postInit loops.
AfterPostInit(run, k) ==
  LET all == run.all
      q == NextPostInit(all, k)
  IN IF q <= Len(all)
     THEN [run EXCEPT !.pc = "postInit", !.k = q,
                      !.log = Append(@, Ev("call", "postInit", all[q]))]
     ELSE [run EXCEPT !.pc = "done", !.k = 0]

\* reloadPlugins() is called: the purge, then the first await (the load of the
\* client registry).
InFlight(run) == run.pc \notin {"idle", "done", "failed"}

StartReload ==
  /\ nRuns' = nRuns + 1
  /\ plugins' = PurgeInjected(plugins)
  /\ runs' = [r \in 1..MaxRuns |->
       IF r = nRuns + 1
       THEN [NoRun EXCEPT !.pc = "loadClient",
                          !.overlapped = \E q \in 1..MaxRuns : InFlight(runs[q])]
       ELSE IF InFlight(runs[r]) THEN [runs[r] EXCEPT !.overlapped = TRUE] ELSE runs[r]]

\* Faulty variant: a notification starts a run whether or not a dev server
\* exists
HotUpdate_withoutServer ==
  /\ nRuns < MaxRuns
  /\ StartReload
  /\ UNCHANGED <<depsVars, htmlVars, fsVars, injVars, envVars, hostVars, ctxVars, foldVars, histVars, vite, isProduction,
                 scaffold, pc, observed>>

\* handleHotUpdate: async (ctx) => { await reload(); }
HotUpdate ==
  /\ vite # 0
  /\ nRuns < MaxRuns
  /\ StartReload
  /\ UNCHANGED <<depsVars, htmlVars, fsVars, injVars, envVars, hostVars, ctxVars, foldVars, histVars, vite, isProduction,
                 scaffold, pc, observed>>

\* The client registry is loaded; clientPluginManager = module.default(); the
\* run awaits the load of the server registry.
LoadClientReturn(r) ==
  /\ runs[r].pc = "loadClient"
  /\ runs' = [runs EXCEPT ![r] =
       [@ EXCEPT !.pc = "loadServer",
                 !.all = Instantiate(RegistrySource.client, r, "client", 1)]]
  /\ UNCHANGED <<depsVars, htmlVars, fsVars, injVars, envVars, hostVars, ctxVars, foldVars, histVars, plugins, vite,
                 isProduction, scaffold, pc, nRuns, observed>>

\* The server registry is loaded; both generations' halves are pushed; the init
\* loops run up to the first init hook.
LoadServerReturn(r) ==
  /\ runs[r].pc = "loadServer"
  /\ LET all == runs[r].all \o Instantiate(RegistrySource.server, r, "server", 1)
         next == AfterInit([runs[r] EXCEPT !.all = all], 0)
         upto == IF next.pc = "init" THEN next.k ELSE Len(all)
     IN /\ runs' = [runs EXCEPT ![r] = next]
        /\ plugins' = TagIn(plugins \o all, all, 1, upto)
        /\ observed' = IF next.pc = "init"
                       THEN observed \cup {Observation("init", initVite)}
                       ELSE observed
  /\ UNCHANGED <<depsVars, htmlVars, fsVars, injVars, envVars, hostVars, ctxVars, foldVars, histVars, vite, isProduction,
                 scaffold, pc, nRuns>>

\* An init hook returns; the loops go on to the next init hook, or into the
\* postInit loops.
InitReturn(r) ==
  /\ runs[r].pc = "init"
  /\ LET k == runs[r].k
         all == runs[r].all
         ret == [runs[r] EXCEPT !.log = Append(@, Ev("ret", "init", all[k]))]
         next == AfterInit(ret, k)
         upto == IF next.pc = "init" THEN next.k ELSE Len(all)
     IN /\ runs' = [runs EXCEPT ![r] = next]
        /\ plugins' = TagIn(plugins, all, k + 1, upto)
        /\ observed' = IF next.pc = "init"
                       THEN observed \cup {Observation("init", initVite)}
                       ELSE observed
  /\ UNCHANGED <<depsVars, htmlVars, fsVars, injVars, envVars, hostVars, ctxVars, foldVars, histVars, vite, isProduction,
                 scaffold, pc, nRuns>>

\* A postInit hook returns.
PostInitReturn(r) ==
  /\ runs[r].pc = "postInit"
  /\ LET k == runs[r].k
         ret == [runs[r] EXCEPT !.log = Append(@, Ev("ret", "postInit", runs[r].all[k]))]
     IN runs' = [runs EXCEPT ![r] = AfterPostInit(ret, k)]
  /\ UNCHANGED <<depsVars, htmlVars, fsVars, injVars, envVars, hostVars, ctxVars, foldVars, histVars, plugins, vite,
                 isProduction, scaffold, pc, nRuns, observed>>

\* --------------------------------------------------------- the main flow
E(what, name, pass, i) == <<what, name, pass, i>>

\* getViteDevConfig / getViteProdConfig is entered: viteConfig is created and
\* the first configureVite hook, if any, is called.
EnterFold(pass, hk, lg) ==
  /\ foldPass' = pass
  /\ viteConfig' = InitialConfig(pass)
  /\ IF hk.configureViteHooks = <<>>
     THEN /\ pc' = "folded"
          /\ hookIdx' = 0
          /\ log' = lg
     ELSE /\ pc' = "fold"
          /\ hookIdx' = 1
          /\ log' = Append(lg, E("call", "configureVite", pass, hk.configureViteHooks[1]))

\* The loops over initViteHooks and postInitViteHooks at the end of
\* postInitExpress, entered at hook number n of the initVite loop (n past the
\* end: at the first postInitVite hook).
EnterInitViteLoop(n, lg) ==
  IF n <= Len(hooks.initViteHooks)
  THEN /\ pc' = "initVite"
       /\ hookIdx' = n
       /\ log' = Append(lg, E("call", "initVite", "-", hooks.initViteHooks[n]))
       /\ observed' = observed \cup {Observation("initVite", initVite)}
  ELSE /\ observed' = observed
       /\ IF hooks.postInitViteHooks # <<>>
          THEN /\ pc' = "postInitVite"
               /\ hookIdx' = 1
               /\ log' = Append(lg, E("call", "postInitVite", "-", hooks.postInitViteHooks[1]))
          ELSE /\ pc' = "done"
               /\ hookIdx' = 0
               /\ log' = lg

\* Faulty variant: the preview flag is tested before the build flag
BuildBranch_unlessPreview == argv.build /\ ~argv.preview

\* if (args.build) { ... return; }
BuildBranch == argv.build

\* Faulty variant: the preview flag does not switch the mode
IsProduction_ignoresPreview == isProduction

\* else if (args.preview) { isProduction = true; }: isProduction as restartServer
\* finds it.
IsProductionAfterFlags == isProduction \/ argv.preview

\* Faulty variant: the fold returns after its first hook
LastConfigureHook_always == TRUE

\* for (const hook of configureViteHooks): the awaited hook was the last one.
LastConfigureHook == hookIdx >= Len(hooks.configureViteHooks)

\* Faulty variant: a broadcast: every hook is called with the initial config
HookArgument_initial == InitialConfig(foldPass)

\* hook(viteConfig): what the awaited configureVite hook was called with.
HookArgument == viteConfig

\* Faulty variant: reloadPlugins() is called without await
ReloadNotAwaited == TRUE

\* await reloadPlugins() in restartServer, awaited by postInitExpress: the run
\* restartServer started is over.
ReloadAwaited == runs[1].pc = "done"

\* init: async (_plugins) => { plugins = _plugins; }
init ==
  /\ pc = "constructed"
  /\ plugins' = registered
  /\ pc' = "init"
  /\ UNCHANGED <<depsVars, htmlVars, fsVars, injVars, envVars, hostVars, ctxVars, foldVars, histVars, vite, isProduction,
                 scaffold, runs, nRuns, observed>>

\* expressPlugin?.port ?? 5173
PortOf(list) ==
  LET S == {i \in DOMAIN list : list[i].name = "express"}
  IN IF S = {} THEN DefaultPort ELSE list[Min(S)].port

\* initExpress: the RuntimeContext is constructed.
initExpress ==
  /\ pc = "init"
  /\ ctxCount' = ctxCount + 1
  /\ initVite' = [id |-> ctxCount + 1, port |-> PortOf(plugins)]
  /\ pc' = "initExpress"
  /\ UNCHANGED <<depsVars, htmlVars, fsVars, injVars, envVars, hostVars, foldVars, histVars, plugins, vite, isProduction,
                 scaffold, runs, nRuns, observed>>

\* postInitExpress up to its first await: the flags are read, the hooks are
\* collected, and either the client-only fold of the build branch or
\* restartServer is entered.
postInitExpress ==
  /\ pc = "initExpress"
  /\ hooks' = getRelevantHooks
  /\ IF BuildBranch
     THEN /\ EnterFold("client", hooks', log)
          /\ UNCHANGED isProduction
     ELSE /\ isProduction' = IsProductionAfterFlags
          /\ IF ~isProduction'
             THEN EnterFold("dev", hooks', log)
             ELSE /\ pc' = "importCompression"
                  /\ UNCHANGED <<foldPass, viteConfig, hookIdx, log>>
  /\ UNCHANGED <<depsVars, htmlVars, fsVars, injVars, envVars, hostVars, ctxVars, received, materialized, toolCalls, plugins,
                 vite, scaffold, runs, nRuns, observed>>

\* viteConfig = await hook(viteConfig): the awaited configureVite hook
\* returns; the next one is called, or the fold function returns.
ConfigureViteReturn ==
  /\ pc = "fold"
  /\ LET i == hooks.configureViteHooks[hookIdx]
         ret == ConfigureVite(plugins[i].configureVite, HookArgument)
         lg == Append(log, E("ret", "configureVite", foldPass, i))
     IN /\ viteConfig' = ret
        /\ received' = Append(received,
                              [pass |-> foldPass, hook |-> i, arg |-> HookArgument, ret |-> ret])
        /\ IF ~LastConfigureHook
           THEN /\ hookIdx' = hookIdx + 1
                /\ log' = Append(lg, E("call", "configureVite", foldPass,
                                       hooks.configureViteHooks[hookIdx + 1]))
                /\ pc' = "fold"
           ELSE /\ hookIdx' = 0
                /\ log' = lg
                /\ pc' = "folded"
  /\ UNCHANGED <<depsVars, htmlVars, fsVars, injVars, envVars, hostVars, ctxVars, hooks, foldPass, materialized, toolCalls,
                 plugins, vite, isProduction, scaffold, runs, nRuns, observed>>

\* The folded config is back in restartServer / postInitExpress:
\* createViteEnvironment writes the scaffold, then the build tool is started
\* (createServer in dev, build in the build branch) and awaited.
FoldedReturn ==
  /\ pc = "folded"
  /\ scaffold' = [client |-> viteConfig.clientPluginModules,
                  server |-> viteConfig.serverPluginModules]
  /\ materialized' = Append(materialized,
                            [pass |-> foldPass,
                             serverPluginModules |-> viteConfig.serverPluginModules,
                             clientPluginModules |-> viteConfig.clientPluginModules])
  /\ LET tool == IF foldPass = "dev" THEN "createServer" ELSE "build"
     IN /\ toolCalls' = Append(toolCalls,
                               [tool |-> tool, pass |-> foldPass, config |-> viteConfig.config])
        /\ log' = log \o << E("materialize", "createViteEnvironment", foldPass, 0),
                            E("call", tool, foldPass, 0) >>
        /\ pc' = tool
  /\ fs' = createViteEnvironment(fs, viteConfig.serverPluginModules,
                                 viteConfig.clientPluginModules)
  /\ envCalls' = Append(envCalls, EnvCall(viteConfig.serverPluginModules,
                                          viteConfig.clientPluginModules, fs'))
  /\ UNCHANGED <<depsVars, htmlVars, injVars, envVars, hostVars, ctxVars, foldVars, received, plugins, vite,
                 isProduction, runs, nRuns, observed>>

\* vite = await createServer(...); router.use(vite.middlewares); then
\* reloadPlugins() is called and awaited.
CreateServerReturn ==
  /\ pc = "createServer"
  /\ vite' = 1
  /\ router' = Append(router, "vite.middlewares")
  /\ log' = log \o << E("ret", "createServer", foldPass, 0), E("call", "reloadPlugins", "-", 0) >>
  /\ StartReload
  /\ pc' = "reload"
  /\ UNCHANGED <<depsVars, htmlVars, fsVars, injVars, envVars, appUse, stopCalls, templateHtmlPromise, ctxVars, foldVars,
                 received, materialized, toolCalls, isProduction, scaffold, observed>>

\* await build(...) returns: after the client build the SSR fold is entered,
\* after the SSR build stop() is called and postInitExpress returns.
BuildReturn ==
  /\ pc = "build"
  /\ LET lg == Append(log, E("ret", "build", foldPass, 0))
     IN IF foldPass = "client"
        THEN /\ EnterFold("ssr", hooks, lg)
             /\ UNCHANGED stopCalls
        ELSE /\ stopCalls' = stopCalls + 1
             /\ log' = Append(lg, E("call", "stop", "-", 0))
             /\ pc' = "done"
             /\ UNCHANGED <<foldPass, viteConfig, hookIdx>>
  /\ UNCHANGED <<depsVars, htmlVars, fsVars, injVars, envVars, router, appUse, templateHtmlPromise, ctxVars, hooks, received,
                 materialized, toolCalls, plugins, vite, isProduction, scaffold, runs,
                 nRuns, observed>>

\* restartServer in production: (await import("compression")).default
ImportCompressionReturn ==
  /\ pc = "importCompression"
  /\ pc' = "importSirv"
  /\ UNCHANGED <<depsVars, htmlVars, fsVars, injVars, envVars, hostVars, ctxVars, foldVars, histVars, plugins, vite,
                 isProduction, scaffold, runs, nRuns, observed>>

\* (await import("sirv")).default; both middlewares are mounted on the router;
\* then reloadPlugins() is called and awaited.
ImportSirvReturn ==
  /\ pc = "importSirv"
  /\ router' = router \o <<"compression", "sirv">>
  /\ log' = Append(log, E("call", "reloadPlugins", "-", 0))
  /\ StartReload
  /\ pc' = "reload"
  /\ UNCHANGED <<depsVars, htmlVars, fsVars, injVars, envVars, appUse, stopCalls, templateHtmlPromise, ctxVars, foldVars,
                 received, materialized, toolCalls, vite, isProduction, scaffold,
                 observed>>

\* await restartServer(...) returns (the run of reloadPlugins it awaited is
\* over): app.use(router), templateHtmlPromise is set, the first initVite hook
\* is called.
ReloadReturn ==
  /\ pc = "reload"
  /\ ReloadAwaited
  /\ appUse' = Append(appUse, "router")
  /\ templateHtmlPromise' = IF isProduction THEN "readFile" ELSE "undefined"
  /\ cachedHtml' = IF isProduction THEN distIndexHtml ELSE cachedHtml
  /\ io' = IF isProduction THEN [io EXCEPT !.distReads = @ + 1] ELSE io
  /\ EnterInitViteLoop(1, log \o << E("ret", "reloadPlugins", "-", 0), E("call", "app.use", "-", 0) >>)
  /\ UNCHANGED <<depsVars, fsVars, injVars, distIndexHtml, page, envVars, router, stopCalls, ctxVars, hooks, foldPass, viteConfig,
                 received, materialized, toolCalls, plugins, vite, isProduction,
                 scaffold, runs, nRuns>>

\* await hook(initVite) returns.
InitViteReturn ==
  /\ pc = "initVite"
  /\ EnterInitViteLoop(hookIdx + 1,
                       Append(log, E("ret", "initVite", "-", hooks.initViteHooks[hookIdx])))
  /\ UNCHANGED <<depsVars, htmlVars, fsVars, injVars, envVars, hostVars, ctxVars, hooks, foldPass, viteConfig, received,
                 materialized, toolCalls, plugins, vite, isProduction, scaffold, runs,
                 nRuns>>

\* await hook() returns (a postInitVite hook).
PostInitViteReturn ==
  /\ pc = "postInitVite"
  /\ LET lg == Append(log, E("ret", "postInitVite", "-", hooks.postInitViteHooks[hookIdx]))
     IN IF hookIdx < Len(hooks.postInitViteHooks)
        THEN /\ hookIdx' = hookIdx + 1
             /\ log' = Append(lg, E("call", "postInitVite", "-",
                                    hooks.postInitViteHooks[hookIdx + 1]))
             /\ pc' = "postInitVite"
        ELSE /\ hookIdx' = 0
             /\ log' = lg
             /\ pc' = "done"
  /\ UNCHANGED <<depsVars, htmlVars, fsVars, injVars, envVars, hostVars, ctxVars, hooks, foldPass, viteConfig, received,
                 materialized, toolCalls, plugins, vite, isProduction, scaffold, runs,
                 nRuns, observed>>

\* A plugin that was handed the RuntimeContext reads its mode and server
\* fields again, at any later time.
ContextRead ==
  /\ \E o \in observed :
       observed' = observed \cup {Observation("later", [id |-> o.ctx, port |-> 0])}
  /\ UNCHANGED <<depsVars, htmlVars, fsVars, injVars, envVars, hostVars, ctxVars, foldVars, histVars, plugins, vite,
                 isProduction, scaffold, pc, runs, nRuns>>

\* ------------------------------------------------------------------ Next
Next ==
  \/ init
  \/ initExpress
  \/ postInitExpress
  \/ ConfigureViteReturn
  \/ FoldedReturn
  \/ CreateServerReturn
  \/ BuildReturn
  \/ ImportCompressionReturn
  \/ ImportSirvReturn
  \/ ReloadReturn
  \/ InitViteReturn
  \/ PostInitViteReturn
  \/ HotUpdate
  \/ \E r \in 1..MaxRuns : LoadClientReturn(r)
  \/ \E r \in 1..MaxRuns : LoadServerReturn(r)
  \/ \E r \in 1..MaxRuns : InitReturn(r)
  \/ \E r \in 1..MaxRuns : PostInitReturn(r)
  \/ ContextRead

Spec == Init /\ [][Next]_vars

\* ------------------------------------------------------ failing awaits
\* An awaited call of the main flow rejects (or a call made between two
\* awaits throws): the promise of postInitExpress rejects and nothing after
\* the call is executed.
MainFlowRejects(name, pass, i) ==
  /\ pc' = "rejected"
  /\ log' = Append(log, E("throw", name, pass, i))
  /\ UNCHANGED <<depsVars, htmlVars, fsVars, injVars, envVars, hostVars, ctxVars, foldVars, received,
                 materialized, toolCalls, plugins, vite, isProduction, scaffold, runs,
                 nRuns, observed>>

\* viteConfig = await hook(viteConfig): the awaited configureVite hook throws.
ConfigureViteThrows ==
  /\ pc = "fold"
  /\ MainFlowRejects("configureVite", foldPass, hooks.configureViteHooks[hookIdx])

\* createViteEnvironment(...) throws (a directory or a file cannot be written).
CreateViteEnvironmentThrows ==
  /\ pc = "folded"
  /\ MainFlowRejects("createViteEnvironment", foldPass, 0)

\* Faulty variant: the failure of the build tool is swallowed and stop() is
\* called
ToolThrows_swallowed ==
  /\ pc \in {"createServer", "build"}
  /\ pc' = "done"
  /\ stopCalls' = stopCalls + 1
  /\ log' = log \o << E("throw", pc, foldPass, 0), E("call", "stop", "-", 0) >>
  /\ UNCHANGED <<depsVars, htmlVars, fsVars, injVars, envVars, router, appUse, templateHtmlPromise, ctxVars,
                 foldVars, received, materialized, toolCalls, plugins, vite, isProduction,
                 scaffold, runs, nRuns, observed>>

\* await createServer(...) / await build(...) rejects.
ToolThrows ==
  /\ pc \in {"createServer", "build"}
  /\ MainFlowRejects(pc, foldPass, 0)

\* await hook(initVite) rejects.
InitViteThrows ==
  /\ pc = "initVite"
  /\ MainFlowRejects("initVite", "-", hooks.initViteHooks[hookIdx])

\* await hook() rejects (a postInitVite hook).
PostInitViteThrows ==
  /\ pc = "postInitVite"
  /\ MainFlowRejects("postInitVite", "-", hooks.postInitViteHooks[hookIdx])

\* await plugin.init(...) / await plugin.postInit() rejects in run r of
\* reloadPlugins: the run is over; the run restartServer awaits takes
\* restartServer and postInitExpress with it.
HookThrows(r) ==
  /\ runs[r].pc \in {"init", "postInit"}
  /\ runs' = [runs EXCEPT ![r] =
       [@ EXCEPT !.pc = "failed",
                 !.log = Append(@, Ev("throw", runs[r].pc, runs[r].all[runs[r].k]))]]
  /\ IF r = 1
     THEN /\ pc' = "rejected"
          /\ log' = Append(log, E("throw", "reloadPlugins", "-", 0))
     ELSE UNCHANGED <<pc, log>>
  /\ UNCHANGED <<depsVars, htmlVars, fsVars, injVars, envVars, hostVars, ctxVars, foldVars, received,
                 materialized, toolCalls, plugins, vite, isProduction, scaffold, nRuns,
                 observed>>

\* The orchestrator with hooks, materialization and the build tool failing.
NextFail ==
  \/ Next
  \/ ConfigureViteThrows
  \/ CreateViteEnvironmentThrows
  \/ ToolThrows
  \/ InitViteThrows
  \/ PostInitViteThrows
  \/ \E r \in 1..MaxRuns : HookThrows(r)

SpecFail == Init /\ [][NextFail]_vars

\* =====================================================================
\* The dependency resolver (src/preload.ts). Strings are TLA+ strings;
\* Len, SubSeq and \o act on their characters.
\* =====================================================================

\* String.prototype.startsWith
startsWith(s, p) == Len(s) >= Len(p) /\ SubSeq(s, 1, Len(p)) = p

\* String.prototype.endsWith
endsWith(s, p) == Len(s) >= Len(p) /\ SubSeq(s, Len(s) - Len(p) + 1, Len(s)) = p

\* String.prototype.slice(n) / substring(n), 0 <= n
slice(s, n) == IF n >= Len(s) THEN "" ELSE SubSeq(s, n + 1, Len(s))

\* The 0-based positions at which p occurs in s.
Occurrences(s, p) ==
  {i \in 0..(Len(s) - Len(p)) : Len(s) >= Len(p) /\ SubSeq(s, i + 1, i + Len(p)) = p}

\* String.prototype.includes
includes(s, p) == Occurrences(s, p) # {}

\* String.prototype.lastIndexOf: -1 when p does not occur
RECURSIVE lastIndexFrom(_, _, _)
lastIndexFrom(s, p, i) ==
  IF i < 0 THEN -1
  ELSE IF SubSeq(s, i + 1, i + Len(p)) = p THEN i
  ELSE lastIndexFrom(s, p, i - 1)

lastIndexOf(s, p) == lastIndexFrom(s, p, Len(s) - Len(p))

\* String.prototype.split('/'), from 0-based position `from` on, the piece
\* begun so far being `piece`.
RECURSIVE splitFrom(_, _, _)
splitFrom(s, from, piece) ==
  IF from >= Len(s) THEN <<piece>>
  ELSE IF SubSeq(s, from + 1, from + 1) = "/"
       THEN <<piece>> \o splitFrom(s, from + 1, "")
       ELSE splitFrom(s, from + 1, piece \o SubSeq(s, from + 1, from + 1))

split(s) == splitFrom(s, 0, "")

\* Array.prototype.join('/') from element k on
RECURSIVE joinFrom(_, _)
joinFrom(parts, k) ==
  IF k > Len(parts) THEN ""
  ELSE IF k = Len(parts) THEN parts[k]
  ELSE parts[k] \o "/" \o joinFrom(parts, k + 1)

\* path.posix.normalize, the walk over the segments: empty and "." segments
\* are dropped, ".." removes the segment before it (and is kept in front of a
\* relative path that has nothing left to remove).
RECURSIVE normalizeString(_, _, _, _)
normalizeString(segs, k, res, allowAboveRoot) ==
  IF k > Len(segs) THEN res
  ELSE IF segs[k] = "" \/ segs[k] = "." THEN normalizeString(segs, k + 1, res, allowAboveRoot)
  ELSE IF segs[k] = ".."
       THEN IF res # <<>> /\ res[Len(res)] # ".."
            THEN normalizeString(segs, k + 1, SubSeq(res, 1, Len(res) - 1), allowAboveRoot)
            ELSE IF allowAboveRoot
                 THEN normalizeString(segs, k + 1, Append(res, ".."), allowAboveRoot)
                 ELSE normalizeString(segs, k + 1, res, allowAboveRoot)
  ELSE normalizeString(segs, k + 1, Append(res, segs[k]), allowAboveRoot)

\* path.posix.normalize
normalize(p) ==
  IF p = "" THEN "."
  ELSE LET isAbsolute == startsWith(p, "/")
           body == joinFrom(normalizeString(split(p), 1, <<>>, ~isAbsolute), 1)
           tail == IF body # "" /\ endsWith(p, "/") THEN "/" ELSE ""
       IN IF isAbsolute THEN "/" \o body \o tail
          ELSE IF body = "" THEN (IF endsWith(p, "/") THEN "./" ELSE ".")
          ELSE body \o tail

\* path.join(...parts): the non-empty parts joined by "/", normalized
pathJoin(parts) ==
  LET kept == SelectSeq(parts, LAMBDA part : part # "")
  IN IF kept = <<>> THEN "." ELSE normalize(joinFrom(kept, 1))

\* ---------------------------------------------------------- the manifest
\* One property of the manifest object: a module path and its asset list.
Pair(k, v) == [key |-> k, value |-> v]

\* A manifest file with the given properties, in the order written.
JsonFile(entries) == [exists |-> TRUE, wellFormed |-> TRUE, entries |-> entries]

\* A manifest file whose content is not JSON.
MalformedFile == [exists |-> TRUE, wellFormed |-> FALSE, entries |-> <<>>]

\* The manifest a build of the README's two-entry example writes.
ExampleManifest ==
  JsonFile(<< Pair("client.ts", <<"a.js", "b.js">>), Pair("admin.ts", <<"a.js", "c.js">>) >>)

\* The manifest files explored: none, malformed, {}, the example, and one
\* with an asset listed twice and a key written with "./".
ManifestFiles ==
  { AbsentFile, MalformedFile, JsonFile(<<>>), ExampleManifest,
    JsonFile(<< Pair("client.ts", <<"b.js", "a.js", "b.js">>), Pair("./admin.ts", <<"c.js">>) >>) }

\* const manifest = fs.existsSync(...) ? fs.readFileSync(..., "utf-8") : "{}"
manifest == IF manifestFile.exists THEN manifestFile ELSE JsonFile(<<>>)

\* JSON.parse(text) throws a SyntaxError on text that is not JSON
JSONparseThrows(text) == ~text.wellFormed

\* Faulty variant: the keys are kept as the manifest file states them
ManifestKey_asStated(key) == key

\* ([key, value]) => [path.join(cwd, ".vite", key), value]: the key of an entry
\* of manifestJson
ManifestKey(key) == pathJoin(<<cwd, ".vite", key>>)

\* Object.fromEntries(Object.entries(JSON.parse(manifest)).map(...)), as the list
\* of its entries (a later entry with an equal key replaces an earlier one when
\* it is read)
ManifestJsonOf(text) ==
  [i \in DOMAIN text.entries |->
     Pair(ManifestKey(text.entries[i].key), text.entries[i].value)]

\* manifestJson[module]: undefined (found = FALSE) or the asset list
ManifestLookup(module) ==
  LET hits == {i \in DOMAIN manifestJson : manifestJson[i].key = module}
  IN IF hits = {} THEN [found |-> FALSE, value |-> <<>>]
     ELSE [found |-> TRUE,
           value |-> manifestJson[CHOOSE i \in hits : \A j \in hits : j <= i].value]

\* ------------------------------------------------------ the module graph
Nodes == DOMAIN EmptyGraph.imports

\* What can be wrong with the last module: getModuleById does not know it
\* ("absent"), it has no id ("noid"), or the lookup of it throws ("throws").
Faults == {"none", "absent", "noid", "throws"}
Faulty(g, n) == n = Len(g.imports) /\ g.fault # "none"

\* The sequence of the elements of a set of numbers, ascending.
RECURSIVE SortedSeq(_)
SortedSeq(S) == IF S = {} THEN <<>> ELSE <<Min(S)>> \o SortedSeq(S \ {Min(S)})

\* The graph with the given import edges, each module's importedModules being
\* iterated in ascending order.
GraphOf(edges, fault) ==
  [imports |-> [n \in Nodes |-> SortedSeq({m \in Nodes : <<n, m>> \in edges})],
   fault |-> fault,
   ids |-> EmptyGraph.ids]

\* The README's example: A imports B, B imports A and C.
ExampleGraph == GraphOf({<<1, 2>>, <<2, 1>>, <<2, 3>>}, "none")

\* Other ids a module of the graph can have: URLs that are already in
\* optimized form (one of them inside a package directory), files of an
\* unscoped package, of a package nested in another, of a scope directory
\* itself, a file in the cache directory of another project, a source file,
\* and a relative path that starts with a parent-directory segment.
OtherIds ==
  { "/@id/virtual:my-plugin",
    "/@fs/app/node_modules/lodash/index.js",
    "/node_modules/.vite/deps/lodash.js",
    "/project/node_modules/lodash/index.js",
    "/project/node_modules/a/node_modules/@b/c/index.js",
    "/project/node_modules/@vue",
    "/project/node_modules/.vite/deps/x.js",
    "/src/main.ts",
    "../shared/util.ts" }

\* The example with B a file of a scoped package and C a file of an unscoped
\* one.
PackagesGraph == [ExampleGraph EXCEPT !.ids[3] = "/project/node_modules/lodash/index.js"]

\* Every graph with at most MaxEdges import edges (self-imports and cycles
\* included) and any fault, and the example with other ids for B or C.
Graphs ==
  {GraphOf(edges, fault) :
     edges \in {es \in SUBSET (Nodes \X Nodes) : Cardinality(es) <= MaxEdges},
     fault \in Faults}
  \cup {[ExampleGraph EXCEPT !.ids[2] = id] : id \in OtherIds}
  \cup {PackagesGraph}

\* viteDevServer.moduleGraph.getModuleById(id): undefined, a module, or an
\* exception
getModuleById(g, id) ==
  LET hits == {n \in Nodes : g.ids[n] = id}
      n == CHOOSE n \in hits : TRUE
  IN IF hits = {} THEN [kind |-> "undefined", node |-> 0]
     ELSE IF Faulty(g, n) /\ g.fault = "throws" THEN [kind |-> "throws", node |-> n]
     ELSE IF Faulty(g, n) /\ g.fault = "absent" THEN [kind |-> "undefined", node |-> 0]
     ELSE [kind |-> "module", node |-> n]

\* Faulty variant: every module is taken to have an id
HasId_always(g, n) == TRUE

\* mod.id / dep.id is set (it is null for a module without id)
HasId(g, n) == ~(Faulty(g, n) /\ g.fault = "noid")

\* The elements of a sequence.
Range(s) == {s[i] : i \in DOMAIN s}

\* Faulty variant: the set is created once and shared by the calls
NewSeen_shared == [seen |-> call.lookups, threw |-> FALSE, lookups |-> <<>>]

\* seen = new Set<string>(): the ids in insertion order; with it travel whether
\* an exception is propagating and the ids getModuleById was asked for.
NewSeen == [seen |-> <<>>, threw |-> FALSE, lookups |-> <<>>]

\* collectDepsDev(viteDevServer, entryId, seen) and its loop
\* for (const dep of mod.importedModules) from import number k on.
RECURSIVE collectDepsDev(_, _, _)
RECURSIVE collectImports(_, _, _, _)

\* Faulty variant: the imports of a module are not followed
collectDepsDev_entryOnly(g, entryId, acc) ==
  LET mod == getModuleById(g, entryId)
      asked == [acc EXCEPT !.lookups = Append(@, entryId)]
  IN IF mod.kind = "throws" THEN [asked EXCEPT !.threw = TRUE]
     ELSE IF mod.kind = "undefined" \/ ~HasId(g, mod.node)
             \/ g.ids[mod.node] \in Range(acc.seen)
          THEN asked
     ELSE [asked EXCEPT !.seen = Append(@, g.ids[mod.node])]

collectDepsDev(g, entryId, acc) ==
  LET mod == getModuleById(g, entryId)
      asked == [acc EXCEPT !.lookups = Append(@, entryId)]
  IN IF mod.kind = "throws" THEN [asked EXCEPT !.threw = TRUE]
     ELSE IF mod.kind = "undefined" \/ ~HasId(g, mod.node)
             \/ g.ids[mod.node] \in Range(acc.seen)
          THEN asked
     ELSE collectImports(g, g.imports[mod.node], 1,
                         [asked EXCEPT !.seen = Append(@, g.ids[mod.node])])

collectImports(g, importedModules, k, acc) ==
  IF k > Len(importedModules) \/ acc.threw THEN acc
  ELSE collectImports(g, importedModules, k + 1,
                      IF HasId(g, importedModules[k])
                      THEN collectDepsDev(g, g.ids[importedModules[k]], acc)
                      ELSE acc)

\* ------------------------------------------------------- the URL rewrite
\* A value that is null or a string: <<>> is null, <<s>> is the string s.
\* if (packageName): null and the empty string are falsy.
Truthy(opt) == opt # <<>> /\ opt[1] # ""

\* Faulty variant: a scope directory is taken for the package
extractPackageName_unscoped(filePath) ==
  LET nodeModulesIndex == lastIndexOf(filePath, "node_modules/")
      parts == split(slice(filePath, nodeModulesIndex + Len("node_modules/")))
  IN IF nodeModulesIndex = -1 THEN <<>> ELSE <<parts[1]>>

\* extractPackageName(filePath)
extractPackageName(filePath) ==
  LET nodeModulesIndex == lastIndexOf(filePath, "node_modules/")
      parts == split(slice(filePath, nodeModulesIndex + Len("node_modules/")))
  IN IF nodeModulesIndex = -1 THEN <<>>
     ELSE IF startsWith(parts[1], "@")
          THEN (IF Len(parts) > 1 THEN <<parts[1] \o "_" \o parts[2]>> ELSE <<parts[1]>>)
     ELSE <<parts[1]>>

\* Faulty variant: an id that names the cache directory is returned as it is
getOptimizedUrl_cacheDirUnchanged(id) ==
  IF \/ startsWith(id, "/@id/")
     \/ startsWith(id, "/@fs/")
     \/ startsWith(id, "/node_modules/.vite/deps/")
  THEN id
  ELSE IF includes(id, ".vite/deps") THEN id
  ELSE IF /\ includes(id, "node_modules")
          /\ Truthy(extractPackageName(id))
       THEN "/node_modules/.vite/deps/" \o extractPackageName(id)[1] \o ".js"
  ELSE pathJoin(<<"/@fs/", id>>)

\* Faulty variant: the URL of a pre-bundled package lacks its leading slash
getOptimizedUrl_relativeDeps(id) ==
  IF \/ startsWith(id, "/@id/")
     \/ startsWith(id, "/@fs/")
     \/ startsWith(id, "/node_modules/.vite/deps/")
  THEN id
  ELSE IF /\ includes(id, "node_modules")
          /\ ~includes(id, ".vite/deps")
          /\ Truthy(extractPackageName(id))
       THEN "node_modules/.vite/deps/" \o extractPackageName(id)[1] \o ".js"
  ELSE pathJoin(<<"/@fs/", id>>)

\* getOptimizedUrl(id)
getOptimizedUrl(id) ==
  IF \/ startsWith(id, "/@id/")
     \/ startsWith(id, "/@fs/")
     \/ startsWith(id, "/node_modules/.vite/deps/")
  THEN id
  ELSE IF /\ includes(id, "node_modules")
          /\ ~includes(id, ".vite/deps")
          /\ Truthy(extractPackageName(id))
       THEN "/node_modules/.vite/deps/" \o extractPackageName(id)[1] \o ".js"
  ELSE pathJoin(<<"/@fs/", id>>)

\* ---------------------------------------------------------------- getDeps
\* Faulty variant: the file:// scheme is not stripped
normalizeEntry_fsOnly(module) ==
  IF startsWith(module, "/@fs/") THEN slice(module, 4) ELSE module

\* module.startsWith("/@fs/") ? module.slice(4)
\*   : module.startsWith("file://") ? module.slice(7) : module
normalizeEntry(module) ==
  IF startsWith(module, "/@fs/") THEN slice(module, 4)
  ELSE IF startsWith(module, "file://") THEN slice(module, 7)
  ELSE module

\* Faulty variant: nothing is removed
newSet_keepsAll(deps) == deps

\* [...new Set(deps)]: each element once, at the place of its first occurrence
RECURSIVE newSetFrom(_, _, _)
newSetFrom(deps, k, kept) ==
  IF k > Len(deps) THEN kept
  ELSE newSetFrom(deps, k + 1,
                  IF deps[k] \in Range(kept) THEN kept ELSE Append(kept, deps[k]))

newSet(deps) == newSetFrom(deps, 1, <<>>)

\* Faulty variant: the catch clause keeps what was collected before the failure
DevContribution_partial(module, depsDev) ==
  [deps |-> [i \in DOMAIN depsDev.seen |-> getOptimizedUrl(depsDev.seen[i])],
   warnings |-> IF depsDev.threw THEN <<module>> ELSE <<>>,
   lookups |-> depsDev.lookups, raised |-> FALSE]

\* The try block in development, depsDev being what collectDepsDev left: the
\* rewritten ids are pushed unless an exception came, and then the catch clause
\* warns and nothing is pushed.
DevContribution(module, depsDev) ==
  IF depsDev.threw
  THEN [deps |-> <<>>, warnings |-> <<module>>, lookups |-> depsDev.lookups,
        raised |-> FALSE]
  ELSE [deps |-> [i \in DOMAIN depsDev.seen |-> getOptimizedUrl(depsDev.seen[i])],
        warnings |-> <<>>, lookups |-> depsDev.lookups, raised |-> FALSE]

\* What one entry adds: deps.push(...) in production and in development, the
\* warning of the catch clause, the graph lookups made, and whether an
\* exception leaves the loop body (the try block encloses every call that can
\* throw).
Contribution(module, viteDevServer, isProd) ==
  IF isProd
  THEN [deps |-> ManifestLookup(module).value, warnings |-> <<>>, lookups |-> <<>>,
        raised |-> FALSE]
  ELSE IF viteDevServer.defined
  THEN DevContribution(module, collectDepsDev(viteDevServer.moduleGraph, module, NewSeen))
  ELSE [deps |-> <<>>, warnings |-> <<>>, lookups |-> <<>>, raised |-> FALSE]

\* let deps = []: nothing pushed, logged or asked yet
NoDeps == [deps |-> <<>>, warnings |-> <<>>, lookups |-> <<>>, raised |-> FALSE]

\* deps.push(...): what the entries before left, and what this entry adds
Pushed(out, c) ==
  [deps |-> out.deps \o c.deps,
   warnings |-> out.warnings \o c.warnings,
   lookups |-> out.lookups \o c.lookups,
   raised |-> c.raised]

\* for (const module of modules) from entry number k on
RECURSIVE getDepsLoop(_, _, _, _, _)
getDepsLoop(modules, k, viteDevServer, isProd, out) ==
  IF k > Len(modules) \/ out.raised THEN out
  ELSE getDepsLoop(modules, k + 1, viteDevServer, isProd,
                   Pushed(out, Contribution(modules[k], viteDevServer, isProd)))

\* return [...new Set(deps)], unless an exception left the loop
Returned(out) ==
  IF out.raised THEN [out EXCEPT !.deps = <<>>] ELSE [out EXCEPT !.deps = newSet(@)]

\* getDeps(modules, viteDevServer, isProduction = false): what it returns
\* (deps) unless it raises, what it logs and what it asks the graph
getDeps(modules, viteDevServer, isProd) ==
  Returned(getDepsLoop([i \in DOMAIN modules |-> normalizeEntry(modules[i])], 1,
                       viteDevServer, isProd, NoDeps))

\* ------------------------------------------------- the resolver's actions
\* The entries callers pass: the client entry as a path, as a /@fs URL and as
\* a file:// URL, a second entry of the scaffold directory, and the two other
\* modules of the graph.
EntryUniverse ==
  { NodeId(1), "/@fs" \o NodeId(1), "file://" \o NodeId(1),
    cwd \o "/.vite/admin.ts", NodeId(2), NodeId(3) }

RECURSIVE ListsUpTo(_)
ListsUpTo(n) ==
  IF n = 0 THEN {<<>>}
  ELSE ListsUpTo(n - 1) \cup
       {Append(l, e) : l \in {x \in ListsUpTo(n - 1) : Len(x) = n - 1}, e \in EntryUniverse}

EntryLists == ListsUpTo(MaxEntries)

\* The orchestrator once postInitExpress has returned, no plugin being
\* registered: serving in production (--preview) or in development.
Started(prod) ==
  /\ argv = [build |-> FALSE, preview |-> prod]
  /\ NODE_ENV = "development"
  /\ registered = <<>>
  /\ dist = NoModules
  /\ plugins = <<>>
  /\ vite = IF prod THEN 0 ELSE 1
  /\ router = IF prod THEN <<"compression", "sirv">> ELSE <<"vite.middlewares">>
  /\ isProduction = prod
  /\ appUse = <<"router">>
  /\ stopCalls = 0
  /\ templateHtmlPromise = IF prod THEN "readFile" ELSE "undefined"
  /\ initVite = [id |-> 1, port |-> DefaultPort]
  /\ ctxCount = 1
  /\ scaffold = NoModules
  /\ pc = "done"
  /\ hooks = NoHooks
  /\ foldPass = IF prod THEN "none" ELSE "dev"
  /\ viteConfig = IF prod THEN NoConfig ELSE InitialConfig("dev")
  /\ hookIdx = 0
  /\ runs = [r \in 1..MaxRuns |-> IF r = 1 THEN [NoRun EXCEPT !.pc = "done"] ELSE NoRun]
  /\ nRuns = 1
  /\ log = IF prod
           THEN << E("call", "reloadPlugins", "-", 0), E("ret", "reloadPlugins", "-", 0),
                   E("call", "app.use", "-", 0) >>
           ELSE << E("materialize", "createViteEnvironment", "dev", 0),
                   E("call", "createServer", "dev", 0), E("ret", "createServer", "dev", 0),
                   E("call", "reloadPlugins", "-", 0), E("ret", "reloadPlugins", "-", 0),
                   E("call", "app.use", "-", 0) >>
  /\ received = <<>>
  /\ materialized = IF prod THEN <<>>
                    ELSE <<[pass |-> "dev", serverPluginModules |-> <<>>,
                            clientPluginModules |-> <<>>]>>
  /\ toolCalls = IF prod THEN <<>>
                 ELSE <<[tool |-> "createServer", pass |-> "dev",
                         config |-> InitialConfig("dev").config]>>
  /\ observed = {}

\* ./.vite once postInitExpress has returned: written by restartServer in
\* development, untouched in production.
EnvStarted(prod) ==
  /\ fs = IF prod THEN NoDir ELSE createViteEnvironment(NoDir, <<>>, <<>>)
  /\ envCalls = IF prod THEN <<>>
                ELSE <<EnvCall(<<>>, <<>>, createViteEnvironment(NoDir, <<>>, <<>>))>>

\* The orchestrator's templating state once postInitExpress has returned,
\* `built` being the production shell on disk.
HtmlStarted(prod, built) ==
  /\ distIndexHtml = built
  /\ cachedHtml = IF prod THEN built ELSE ""
  /\ io = [NoIo EXCEPT !.distReads = IF prod THEN 1 ELSE 0]
  /\ page = NoPage

\* The resolver's inputs: a started orchestrator, a manifest file and the
\* module graph of a dev server. The graph varies with no manifest on disk
\* and the orchestrator in development; the manifest and the orchestrator's
\* mode vary with the example graph.
DepsInit ==
  /\ \E prod \in BOOLEAN : Started(prod)
  /\ manifestFile \in ManifestFiles
  /\ moduleGraph \in Graphs
  /\ \/ manifestFile = AbsentFile /\ ~isProduction
     \/ moduleGraph = ExampleGraph
  /\ loaded = "no"
  /\ manifestJson = <<>>
  /\ call = NoCall
  /\ recall = NoCall
  /\ HtmlStarted(isProduction, BuiltIndexHtml)
  /\ EnvStarted(isProduction)
  /\ InjectIdle

\* import { getDeps } from "./preload.js": the module body runs once; a
\* SyntaxError of JSON.parse rejects the import.
ImportPreload ==
  /\ loaded = "no"
  /\ IF JSONparseThrows(manifest)
     THEN /\ loaded' = "threw"
          /\ manifestJson' = manifestJson
     ELSE /\ loaded' = "yes"
          /\ manifestJson' = ManifestJsonOf(manifest)
  /\ UNCHANGED <<orchVars, htmlVars, fsVars, injVars, manifestFile, moduleGraph, call, recall>>

\* The dev-server handle a caller passes: undefined or a server with the graph.
Handle(defined) == [defined |-> defined, moduleGraph |-> moduleGraph]

\* The record of a call and its outcome.
CallRecord(via, modules, withServer, isProd, out) ==
  [via |-> via, modules |-> modules, withServer |-> withServer, isProduction |-> isProd,
   deps |-> out.deps, warnings |-> out.warnings, lookups |-> out.lookups,
   raised |-> out.raised]

Called(via, modules, withServer, isProd) ==
  CallRecord(via, modules, withServer, isProd,
             getDeps(modules, Handle(withServer), isProd))

\* A caller that imported preload.ts calls getDeps(modules, viteDevServer) or
\* getDeps(modules, viteDevServer, true). (One call is followed per behaviour:
\* getDeps writes nothing that a later call reads.)
GetDeps ==
  /\ loaded = "yes"
  /\ call = NoCall
  /\ \E modules \in EntryLists, withServer \in BOOLEAN, isProd \in BOOLEAN :
       call' = Called("direct", modules, withServer, isProd)
  /\ UNCHANGED <<orchVars, htmlVars, fsVars, injVars, manifestFile, moduleGraph, loaded, manifestJson, recall>>

\* A plugin calls the RuntimeContext's getDeps:
\* getDeps: (modules) => getDeps(modules, vite)
CtxGetDeps ==
  /\ loaded = "yes"
  /\ call = NoCall
  /\ \E modules \in EntryLists :
       call' = Called("ctx", modules, vite # 0, FALSE)
  /\ UNCHANGED <<orchVars, htmlVars, fsVars, injVars, manifestFile, moduleGraph, loaded, manifestJson, recall>>

\* The caller makes the same call once more, with the list it passed before.
GetDepsAgain ==
  /\ call # NoCall
  /\ recall = NoCall
  /\ recall' = Called(call.via, call.modules, call.withServer, call.isProduction)
  /\ UNCHANGED <<orchVars, htmlVars, fsVars, injVars, manifestFile, moduleGraph, loaded, manifestJson, call>>

DepsNext ==
  \/ ImportPreload
  \/ GetDeps
  \/ CtxGetDeps
  \/ GetDepsAgain

SpecDeps == DepsInit /\ [][DepsNext]_vars

\* =====================================================================
\* HTML templating (internalGenerateHTMLTemplate, generateHTMLTemplate,
\* generateHeadContent).
\* =====================================================================

\* A shell without the text a build or a transform leaves around the tokens.
CompactIndexHtml == "<html><head><!--app-head--></head><body><!--app-html--></body></html>"

\* The production shells explored.
DistShells == {BuiltIndexHtml, CompactIndexHtml}

\* String.prototype.substring(a, b), 0 <= a
substring(s, a, b) == IF a >= b THEN "" ELSE SubSeq(s, a + 1, b)

\* String.prototype.indexOf(p, from): -1 when p does not occur from there on
indexOf(s, p, from) ==
  IF \A i \in Occurrences(s, p) : i < from THEN -1
  ELSE CHOOSE i \in Occurrences(s, p) : i >= from /\ \A j \in Occurrences(s, p) : j >= from => i <= j

\* String.prototype.split(sep) with a non-empty separator, from position
\* `from` on
RECURSIVE splitOnFrom(_, _, _)
splitOnFrom(s, sep, from) ==
  IF indexOf(s, sep, from) = -1 THEN <<substring(s, from, Len(s))>>
  ELSE <<substring(s, from, indexOf(s, sep, from))>>
       \o splitOnFrom(s, sep, indexOf(s, sep, from) + Len(sep))

splitOn(s, sep) == splitOnFrom(s, sep, 0)

\* vite.transformIndexHtml(url, html): the dev server's plugins transform the
\* shell; it comes back as it is, or with the HMR client injected at the start
\* of the head.
TransformKinds == {"none", "hmr"}

transformIndexHtml(url, html, kind) ==
  IF kind = "hmr" /\ indexOf(html, "<head>", 0) # -1
  THEN substring(html, 0, indexOf(html, "<head>", 0) + Len("<head>"))
       \o "<script type=\"module\" src=\"/@vite/client\"></script>"
       \o substring(html, indexOf(html, "<head>", 0) + Len("<head>"), Len(html))
  ELSE html

\* What a templating call comes to: a string, or a TypeError.
Html(out) == [threw |-> FALSE, out |-> out]
TypeError == [threw |-> TRUE, out |-> ""]

\* piece1 + head + piece2 + body + piece3, bodySplit being
\* headSplit[1].split("<!--app-html-->"); an element that is not there is
\* undefined and concatenates as the text "undefined"
Pieces(piece1, bodySplit, head, body) ==
  Html(piece1 \o head \o bodySplit[1] \o body
       \o (IF Len(bodySplit) < 2 THEN "undefined" ELSE bodySplit[2]))

\* Faulty variant: the tokens are replaced one after the other in the text
\* that already holds the head
internalGenerateHTMLTemplate_replace(template, head, body) ==
  IF Len(splitOn(template, "<!--app-head-->")) < 2 THEN TypeError
  ELSE Pieces("",
              splitOn(splitOn(template, "<!--app-head-->")[1] \o head
                      \o splitOn(template, "<!--app-head-->")[2], "<!--app-html-->"),
              "", body)

\* internalGenerateHTMLTemplate(url, head, body) once the template is at
\* hand: headSplit[1] is undefined for a template without the head token, and
\* undefined.split raises a TypeError
internalGenerateHTMLTemplate(template, head, body) ==
  IF Len(splitOn(template, "<!--app-head-->")) < 2 THEN TypeError
  ELSE Pieces(splitOn(template, "<!--app-head-->")[1],
              splitOn(splitOn(template, "<!--app-head-->")[2], "<!--app-html-->"),
              head, body)

\* The tags generateHTMLTemplate puts in front of the caller's head
BaselineHead ==
  "<meta charset=\"UTF-8\" />"
  \o "<meta name=\"viewport\" content=\"width=device-width, initial-scale=1.0\" />"

\* generateHTMLTemplate(url, head, body)
generateHTMLTemplate(template, head, body) ==
  internalGenerateHTMLTemplate(template, BaselineHead \o head, body)

\* htmlTemplate.split("<head>")[1].split("</head>")[0]
HeadOf(htmlTemplate) ==
  IF htmlTemplate.threw THEN htmlTemplate
  ELSE IF Len(splitOn(htmlTemplate.out, "<head>")) < 2 THEN TypeError
  ELSE Html(splitOn(splitOn(htmlTemplate.out, "<head>")[2], "</head>")[1])

\* generateHeadContent()
generateHeadContent(template) ==
  HeadOf(internalGenerateHTMLTemplate(template, "", ""))

\* ------------------------------------------------ the templating actions
MaxCalls == 2

\* What callers pass: nothing, plain markup, and markup that holds a token.
Urls == {"/", "/about"}
Heads == {"", "<title>t</title>", "<!--app-html-->"}
Bodies == {"", "<p>hi</p>", "<b><!--app-head--></b><!--app-html-->"}

HtmlInit ==
  /\ \E prod \in BOOLEAN, built \in DistShells : Started(prod) /\ HtmlStarted(prod, built)
  /\ ResolverIdle
  /\ EnvStarted(isProduction)
  /\ InjectIdle

\* if (vite) { readFile("./.vite/index.html"); vite.transformIndexHtml(...) }
\* else templateHtmlPromise ? await templateHtmlPromise : ""
TemplateFor(url, kind) ==
  IF vite # 0 THEN transformIndexHtml(url, indexHtml, kind)
  ELSE IF templateHtmlPromise # "undefined" THEN cachedHtml
  ELSE ""

\* Faulty variant: the production shell is read at each call
IoAfterCall_readsAgain ==
  IF vite # 0
  THEN [io EXCEPT !.indexReads = @ + 1, !.transforms = @ + 1, !.calls = @ + 1]
  ELSE [io EXCEPT !.distReads = @ + 1, !.calls = @ + 1]

\* The reads and transforms one call of internalGenerateHTMLTemplate makes.
IoAfterCall ==
  IF vite # 0
  THEN [io EXCEPT !.indexReads = @ + 1, !.transforms = @ + 1, !.calls = @ + 1]
  ELSE [io EXCEPT !.calls = @ + 1]

PageOf(fn, url, head, body, template, result) ==
  [fn |-> fn, url |-> url, head |-> head, body |-> body, template |-> template,
   threw |-> result.threw, out |-> result.out]

\* A plugin calls initVite.generateHTMLTemplate(url, head, body).
GenerateHTMLTemplate ==
  /\ initVite.id # 0
  /\ io.calls < MaxCalls
  /\ \E url \in Urls, head \in Heads, body \in Bodies, kind \in TransformKinds :
       page' = PageOf("generateHTMLTemplate", url, head, body, TemplateFor(url, kind),
                      generateHTMLTemplate(TemplateFor(url, kind), head, body))
  /\ io' = IoAfterCall
  /\ UNCHANGED <<orchVars, depsVars, fsVars, injVars, distIndexHtml, cachedHtml>>

\* A plugin calls initVite.generateHeadContent().
GenerateHeadContent ==
  /\ initVite.id # 0
  /\ io.calls < MaxCalls
  /\ \E kind \in TransformKinds :
       page' = PageOf("generateHeadContent", "/", "", "", TemplateFor("/", kind),
                      generateHeadContent(TemplateFor("/", kind)))
  /\ io' = IoAfterCall
  /\ UNCHANGED <<orchVars, depsVars, fsVars, injVars, distIndexHtml, cachedHtml>>

HtmlNext ==
  \/ GenerateHTMLTemplate
  \/ GenerateHeadContent

SpecHtml == HtmlInit /\ [][HtmlNext]_vars

\* =====================================================================
\* The scaffold (createViteEnvironment) and the registries it generates.
\* =====================================================================

\* fs.readFileSync(`./.vite/${name}`) of a file that exists
readFile(dir, name) == (CHOOSE f \in dir.files : f.name = name).content

\* An import declaration `import <alias> from '<specifier>';`, the text
\* " from '" being at 0-based position `at` of the line.
ImportDeclaration(line, at) ==
  [alias |-> substring(line, Len("import "), at),
   from |-> substring(line, at + Len(" from '"), Len(line) - Len("';"))]

\* The import declarations of a module, from line k on.
RECURSIVE ImportsIn(_, _)
ImportsIn(lines, k) ==
  IF k > Len(lines) THEN <<>>
  ELSE (IF startsWith(lines[k], "import ")
        THEN <<ImportDeclaration(lines[k], indexOf(lines[k], " from '", 0))>>
        ELSE <<>>)
       \o ImportsIn(lines, k + 1)

\* The identifiers called in the elements `<alias>()` of an array literal,
\* from element k on.
RECURSIVE CallsIn(_, _)
CallsIn(elements, k) ==
  IF k > Len(elements) THEN <<>>
  ELSE <<substring(elements[k], 0, Len(elements[k]) - Len("()"))>>
       \o CallsIn(elements, k + 1)

\* The text between the brackets of the array the factory returns, the text
\* "= () => [" being at 0-based position `at`.
ArrayLiteral(text, at) ==
  substring(text, at + Len("= () => ["), indexOf(text, "];", at))

FactoryCallsOf(inner) == IF inner = "" THEN <<>> ELSE CallsIn(splitOn(inner, ", "), 1)

\* Evaluation of a registry module and of its default export: two imports of
\* one name are a SyntaxError, a call of an unbound name a ReferenceError;
\* otherwise the factory returns, in the order of its calls, one instance per
\* call, of the module the called name is bound to.
Factory(imports, calls) ==
  IF \E j, k \in DOMAIN imports : j # k /\ imports[j].alias = imports[k].alias
  THEN [threw |-> "SyntaxError", instances |-> <<>>]
  ELSE IF \E c \in DOMAIN calls : \A k \in DOMAIN imports : imports[k].alias # calls[c]
  THEN [threw |-> "ReferenceError", instances |-> <<>>]
  ELSE [threw |-> "none",
        instances |-> [c \in DOMAIN calls |->
                         imports[CHOOSE k \in DOMAIN imports :
                                   imports[k].alias = calls[c]].from]]

\* The import declarations of a registry module and the calls in the array
\* its factory returns.
ParseRegistry(text) ==
  [imports |-> ImportsIn(splitOn(text, "\n"), 1),
   calls |-> FactoryCallsOf(ArrayLiteral(text, indexOf(text, "= () => [", 0)))]

\* (await vite.ssrLoadModule("/server.ts")).default(), and the same for
\* /clientPlugins.ts, on the text of the module
LoadRegistry(text) == Factory(ParseRegistry(text).imports, ParseRegistry(text).calls)

MaxEnvCalls == 2

\* The module lists handed to createViteEnvironment: empty, in both orders,
\* with one specifier twice.
ModuleLists ==
  { <<>>, <<"a", "b">>, <<"b", "a">>, <<"a", "a">>, <<"a", "b", "a">> }

\* A started orchestrator: ./.vite absent in production, written once by
\* restartServer in development.
EnvInit ==
  /\ \E prod \in BOOLEAN : Started(prod) /\ HtmlStarted(prod, BuiltIndexHtml)
  /\ ResolverIdle
  /\ EnvStarted(isProduction)
  /\ InjectIdle

\* createViteEnvironment(serverPluginModules, clientPluginModules)
CreateViteEnvironment ==
  /\ Len(envCalls) < MaxEnvCalls
  /\ \E serverPluginModules \in ModuleLists, clientPluginModules \in ModuleLists :
       /\ fs' = createViteEnvironment(fs, serverPluginModules, clientPluginModules)
       /\ envCalls' = Append(envCalls, EnvCall(serverPluginModules, clientPluginModules, fs'))
  /\ UNCHANGED <<orchVars, depsVars, htmlVars, injVars>>

EnvNext == CreateViteEnvironment

SpecEnv == EnvInit /\ [][EnvNext]_vars

\* =====================================================================
\* injectVite: the orchestrator added to a plugin list that lacks one.
\* =====================================================================

MaxInjectCalls == 3

\* A plugin of the list handed to injectVite: id 0 is an object the caller
\* put there, id k > 0 the k-th object vitePlugin() returned.
ListPlugin(name, id) == [name |-> name, id |-> id]

\* plugins.find(p => p.name === "vite") is truthy
HasVite(list) == \E k \in DOMAIN list : list[k].name = "vite"

\* The lists injectVite is handed: with no orchestrator and with one, first,
\* last or alone.
HostLists ==
  { <<>>,
    <<ListPlugin("express", 0)>>,
    <<ListPlugin("express", 0), ListPlugin("boot", 0)>>,
    <<ListPlugin("vite", 0)>>,
    <<ListPlugin("vite", 0), ListPlugin("express", 0)>>,
    <<ListPlugin("express", 0), ListPlugin("vite", 0)>> }

InjectInit ==
  /\ \E prod \in BOOLEAN : Started(prod) /\ HtmlStarted(prod, BuiltIndexHtml)
  /\ ResolverIdle
  /\ EnvStarted(isProduction)
  /\ hostList \in HostLists
  /\ givenList = hostList
  /\ orchestrators = <<>>
  /\ injections = [c \in 1..MaxInjectCalls |-> "idle"]

\* Faulty variant: the list is not searched for a plugin named "vite"
InjectVite_unconditional(c) ==
  /\ injections[c] = "idle"
  /\ hostList' = Append(hostList, ListPlugin("vite", Len(orchestrators) + 1))
  /\ orchestrators' = Append(orchestrators, [plugins |-> hostList'])
  /\ injections' = [injections EXCEPT ![c] = "init"]
  /\ UNCHANGED <<orchVars, depsVars, htmlVars, fsVars, givenList>>

\* injectVite(plugins) up to its await: without a plugin named "vite" in the
\* list, vitePlugin() is called, the object is pushed and its init is called
\* with the list (plugins = _plugins) and awaited; with one, the function
\* returns.
InjectVite(c) ==
  /\ injections[c] = "idle"
  /\ IF HasVite(hostList)
     THEN /\ injections' = [injections EXCEPT ![c] = "done"]
          /\ UNCHANGED <<hostList, orchestrators>>
     ELSE /\ hostList' = Append(hostList, ListPlugin("vite", Len(orchestrators) + 1))
          /\ orchestrators' = Append(orchestrators, [plugins |-> hostList'])
          /\ injections' = [injections EXCEPT ![c] = "init"]
  /\ UNCHANGED <<orchVars, depsVars, htmlVars, fsVars, givenList>>

\* await vite.init?.(plugins) returns.
InjectViteReturn(c) ==
  /\ injections[c] = "init"
  /\ injections' = [injections EXCEPT ![c] = "done"]
  /\ UNCHANGED <<orchVars, depsVars, htmlVars, fsVars, givenList, hostList, orchestrators>>

InjectNext ==
  \/ \E c \in 1..MaxInjectCalls : InjectVite(c)
  \/ \E c \in 1..MaxInjectCalls : InjectViteReturn(c)

SpecInject == InjectInit /\ [][InjectNext]_vars

\* ================================================================ claims
\* Vocabulary of the claims.
Serving == ~argv.build
DevMode == ~argv.build /\ ~argv.preview /\ NODE_ENV # "production"
Quiescent == \A r \in 1..MaxRuns : ~InFlight(runs[r])
GenerationsIn(list) == {list[i].gen : i \in {j \in DOMAIN list : list[j].gen # 0}}
Tagged(all) == [i \in DOMAIN all |-> [all[i] EXCEPT !._vitePlugin = TRUE]]
IsPrefix(s, t) == Len(s) <= Len(t) /\ SubSeq(t, 1, Len(s)) = s
Count(s, e) == Cardinality({i \in DOMAIN s : s[i] = e})
\* e occurs in s before position m
Earlier(s, e, m) == \E n \in 1..(m - 1) : s[n] = e

\* positions of the registered plugins that provide a configureVite hook
RECURSIVE Providers(_, _)
Providers(list, i) ==
  IF i > Len(list) THEN <<>>
  ELSE (IF list[i].configureVite # "none" THEN <<i>> ELSE <<>>) \o Providers(list, i + 1)

CfgIdx == Providers(registered, 1)

\* call and return of hook `name` for each plugin position of idxs, in order
RECURSIVE CallRets(_, _, _, _)
CallRets(name, pass, idxs, n) ==
  IF n > Len(idxs) THEN <<>>
  ELSE << E("call", name, pass, idxs[n]), E("ret", name, pass, idxs[n]) >>
         \o CallRets(name, pass, idxs, n + 1)

\* C1: once N >= 1 runs of the reload sub-procedure have been started and every
\* one of them has run to completion, the shared plugin list is the list handed
\* to init() followed by exactly one generation of injected instances (the
\* instances one of the runs created, all of them, tagged).
C1_OneGenerationAfterReloads ==
  (nRuns >= 1 /\ Quiescent) =>
    \E r \in 1..nRuns : plugins = registered \o Tagged(runs[r].all)

\* C1 restricted to runs none of which was in flight together with another one:
\* the list is the registered plugins followed by the latest run's generation.
C1_OneGenerationWhenSequential ==
  (nRuns >= 1 /\ Quiescent /\ \A r \in 1..nRuns : ~runs[r].overlapped) =>
    plugins = registered \o Tagged(runs[nRuns].all)

\* Two runs, one after the other, each with a non-empty generation.
C1_SequentialWitness ==
  /\ nRuns = 2 /\ Quiescent
  /\ \A r \in 1..2 : ~runs[r].overlapped /\ Len(runs[r].all) = 3

\* C2: in every reachable state the injected instances in the shared plugin
\* list belong to at most one generation.
C2_NoTwoGenerations == Cardinality(GenerationsIn(plugins)) <= 1

\* C3: with the build flag set (with or without the preview flag) the main flow
\* is: client-only fold, materialize, client build, SSR fold, materialize, SSR
\* build, stop(); stop is called exactly once; no dev server is created, nothing
\* is mounted on the host, reloadPlugins never runs, no initVite/postInitVite
\* hook is called.
ExpectedBuildLog ==
  CallRets("configureVite", "client", CfgIdx, 1)
  \o << E("materialize", "createViteEnvironment", "client", 0),
        E("call", "build", "client", 0), E("ret", "build", "client", 0) >>
  \o CallRets("configureVite", "ssr", CfgIdx, 1)
  \o << E("materialize", "createViteEnvironment", "ssr", 0),
        E("call", "build", "ssr", 0), E("ret", "build", "ssr", 0),
        E("call", "stop", "-", 0) >>

C3_BuildFlag ==
  argv.build =>
    /\ IsPrefix(log, ExpectedBuildLog)
    /\ stopCalls = Count(log, E("call", "stop", "-", 0))
    /\ pc = "done" =>
         /\ log = ExpectedBuildLog
         /\ stopCalls = 1
         /\ [i \in DOMAIN materialized |-> materialized[i].pass] = <<"client", "ssr">>
         /\ [i \in DOMAIN toolCalls |-> toolCalls[i].config.ssr] = <<FALSE, TRUE>>
    /\ \A i \in DOMAIN toolCalls : toolCalls[i].tool = "build"
    /\ vite = 0
    /\ router = <<>> /\ appUse = <<>>
    /\ nRuns = 0
    /\ observed = {}

C3_Witness ==
  /\ argv.build /\ argv.preview
  /\ pc = "done" /\ stopCalls = 1
  /\ Len(received) = 4

\* C4: in a serving mode the main flow is: server / build-tool startup, one run
\* of reloadPlugins awaited to its end, then the initVite hooks (each handed the
\* RuntimeContext) one after the other in registration order, then the
\* postInitVite hooks one after the other in registration order.
StartupLog ==
  SelectSeq(log, LAMBDA e : e[2] \notin {"configureVite", "initVite", "postInitVite"})

ExpectedStartup ==
  (IF DevMode
   THEN << E("materialize", "createViteEnvironment", "dev", 0),
           E("call", "createServer", "dev", 0), E("ret", "createServer", "dev", 0) >>
   ELSE <<>>)
  \o << E("call", "reloadPlugins", "-", 0), E("ret", "reloadPlugins", "-", 0),
        E("call", "app.use", "-", 0) >>

HookLog == SelectSeq(log, LAMBDA e : e[2] \in {"initVite", "postInitVite"})

\* e comes before f: initVite before postInitVite, then registration order,
\* then a hook's call before its return
HookBefore(e, f) ==
  \/ e[2] = "initVite" /\ f[2] = "postInitVite"
  \/ e[2] = f[2] /\ e[4] < f[4]
  \/ e[2] = f[2] /\ e[4] = f[4] /\ e[1] = "call" /\ f[1] = "ret"

\* a hook is called only when the one called before it has returned
OneAtATime(s) ==
  \A m \in DOMAIN s :
    IF m % 2 = 1 THEN s[m][1] = "call"
    ELSE s[m] = [s[m - 1] EXCEPT ![1] = "ret"]

RunComplete(run) ==
  /\ run.pc = "done"
  /\ \A j \in DOMAIN run.all :
       /\ run.all[j].init => Count(run.log, Ev("ret", "init", run.all[j])) = 1
       /\ run.all[j].postInit => Count(run.log, Ev("ret", "postInit", run.all[j])) = 1

C5_EveryHookOnce ==
  (Serving /\ pc = "done") =>
    \A i \in DOMAIN registered :
      /\ registered[i].postInitVite => Count(log, E("call", "postInitVite", "-", i)) = 1
      /\ registered[i].initVite => Count(log, E("call", "initVite", "-", i)) = 1

\* C6: within one run of the reload sub-procedure the init hooks run client
\* instances first, then server instances, each awaited; every init hook has
\* returned before the first postInit hook is called; the postInit hooks run
\* client instances first, then server instances.
RunHookBefore(e, f) ==
  \/ e[2] = "init" /\ f[2] = "postInit"
  \/ e[2] = f[2] /\ e[3] = "client" /\ f[3] = "server"
  \/ e[2] = f[2] /\ e[3] = f[3] /\ e[4] < f[4]
  \/ e[2] = f[2] /\ e[3] = f[3] /\ e[4] = f[4] /\ e[1] = "call" /\ f[1] = "ret"

C6_InitBeforePostInit ==
  \A r \in 1..MaxRuns :
    LET run == runs[r] IN
    /\ \A m, n \in DOMAIN run.log : m < n => RunHookBefore(run.log[m], run.log[n])
    /\ OneAtATime(run.log)
    /\ \A m \in DOMAIN run.log :
         run.log[m][2] = "postInit" =>
           \A j \in DOMAIN run.all :
             run.all[j].init => Earlier(run.log, Ev("ret", "init", run.all[j]), m)
    /\ run.pc = "done" => RunComplete(run)

C6_Witness ==
  \E r \in 1..MaxRuns :
    /\ runs[r].pc = "done"
    /\ Len(runs[r].all) = 3
    /\ Len(runs[r].log) = 10

\* C7: in dev mode and in each of the two passes of the build branch, every
\* configureVite hook has returned before createViteEnvironment is called, and
\* createViteEnvironment has been called (it is synchronous) before createServer
\* / build is called.
C7_ConfigureMaterializeStart ==
  \A m \in DOMAIN log :
    LET pass == log[m][3] IN
    /\ log[m][1] = "materialize" =>
         /\ \A j \in DOMAIN CfgIdx :
              Earlier(log, E("ret", "configureVite", pass, CfgIdx[j]), m)
         /\ \A n \in DOMAIN log :
              (log[n][2] = "configureVite" /\ log[n][3] = pass) => n < m
    /\ (log[m][1] = "call" /\ log[m][2] \in {"createServer", "build"}) =>
         Earlier(log, E("materialize", "createViteEnvironment", pass, 0), m)

C7_Witness ==
  /\ DevMode /\ vite # 0
  /\ Len(received) = 2
  /\ Len(materialized) = 1

\* C8: with the build flag absent, the mode read through the RuntimeContext by
\* any hook is "prod" iff the preview flag or the production environment flag is
\* set and "dev" otherwise; a dev server is created, and is what initVite hooks
\* read as ctx.server, exactly when the mode is "dev"; in "prod" the router
\* carries the compression and static-file middleware only.
ProdByFlags == argv.preview \/ NODE_ENV = "production"

C8_ModeFromFlags ==
  Serving =>
    /\ \A o \in observed :
         /\ o.mode = (IF ProdByFlags THEN "prod" ELSE "dev")
         /\ o.who = "initVite" => (o.server # 0 <=> o.mode = "dev")
    /\ vite # 0 => ~ProdByFlags
    /\ toolCalls # <<>> => ~ProdByFlags
    /\ (nRuns >= 1 /\ ~ProdByFlags) => vite # 0
    /\ ProdByFlags => IsPrefix(router, <<"compression", "sirv">>)
    /\ (ProdByFlags /\ nRuns >= 1) => router = <<"compression", "sirv">>

C8_Witness ==
  /\ argv.preview /\ ~argv.build /\ NODE_ENV = "development"
  /\ pc = "done"
  /\ \E o \in observed : o.who = "initVite" /\ o.mode = "prod" /\ o.server = 0

\* A dev-mode state in which an initVite hook has read the context.
C8_WitnessDev ==
  /\ DevMode
  /\ \E o \in observed : o.who = "initVite" /\ o.mode = "dev" /\ o.server # 0

\* C9: one RuntimeContext object is constructed; every initVite hook and every
\* injected instance's init hook, in every run, is handed that object; whenever a
\* holder reads mode or server through it, it reads the orchestrator's
\* isProduction and vite of that moment.
C9_OneLiveContext ==
  /\ ctxCount <= 1
  /\ (pc \notin {"constructed", "init"}) => ctxCount = 1 /\ initVite.id = 1
  /\ \A o \in observed :
       /\ o.ctx = initVite.id /\ o.ctx # 0
       /\ o.mode = (IF o.truthProd THEN "prod" ELSE "dev")
       /\ o.server = o.truthVite

\* The preview flag switched the mode after the context was constructed, and an
\* init hook, an initVite hook and a later reader have read "prod".
C9_Witness ==
  /\ argv.preview /\ NODE_ENV = "development" /\ initVite.id = 1
  /\ \A w \in {"init", "initVite", "later"} :
       \E o \in observed : o.who = w /\ o.mode = "prod"

\* C10: the configureVite hooks of a pass are applied as a left fold in
\* registration order: the first receives the initial config of the pass, each
\* later one the value the previous one returned; the last returned value is what
\* createViteEnvironment gets its module lists from and whose bundler options the
\* build tool is called with.
ReceivedIn(pass) == SelectSeq(received, LAMBDA e : e.pass = pass)

FoldResult(pass) ==
  LET R == ReceivedIn(pass)
  IN IF R = <<>> THEN InitialConfig(pass) ELSE R[Len(R)].ret

C10_LeftFold ==
  \A pass \in {"dev", "client", "ssr"} :
    LET R == ReceivedIn(pass) IN
    /\ IsPrefix([m \in DOMAIN R |-> R[m].hook], CfgIdx)
    /\ \A m \in DOMAIN R :
         R[m].arg = IF m = 1 THEN InitialConfig(pass) ELSE R[m - 1].ret
    /\ \A i \in DOMAIN materialized :
         materialized[i].pass = pass =>
           /\ Len(R) = Len(CfgIdx)
           /\ materialized[i].clientPluginModules = FoldResult(pass).clientPluginModules
           /\ materialized[i].serverPluginModules = FoldResult(pass).serverPluginModules
    /\ \A i \in DOMAIN toolCalls :
         toolCalls[i].pass = pass =>
           /\ Len(R) = Len(CfgIdx)
           /\ toolCalls[i].config = FoldResult(pass).config

C10_Witness ==
  /\ Len(toolCalls) = 1
  /\ Len(ReceivedIn("dev")) = 2
  /\ materialized[1].clientPluginModules = <<"a", "b">>
  /\ materialized[1].serverPluginModules = <<"a">>
  /\ toolCalls[1].config.plugins = <<"vite-plugin-reload", "pa">>

\* ------------------------------------------------------------------ C11
\* The passes whose folded config createViteEnvironment has consumed, in order.
MaterializedPasses == [i \in DOMAIN materialized |-> materialized[i].pass]

\* How many of the registered configureVite hooks push module m on the client
\* list ("a": the pushA hooks, "b": the pushB hooks) and on the server list
\* ("a": the pushA hooks).
PushersOf(m, side) ==
  Cardinality({k \in DOMAIN CfgIdx :
                 \/ m = "a" /\ registered[CfgIdx[k]].configureVite = "pushA"
                 \/ m = "b" /\ side = "client"
                            /\ registered[CfgIdx[k]].configureVite = "pushB"})

\* restartServer / the build branch has gone past the point where it
\* materializes, if it does
PastMaterialization == pc \in {"createServer", "build", "reload", "initVite", "postInitVite", "done"}

\* C11 as stated: on every mode transition, preview included, a fresh config
\* with empty module lists is created, folded through the configureVite hooks
\* and consumed once by createViteEnvironment.
C11_FreshConfigEveryTransition ==
  PastMaterialization =>
    /\ materialized # <<>>
    /\ \A i, j \in DOMAIN materialized :
         materialized[i].pass = materialized[j].pass => i = j
    /\ \A pass \in {"dev", "client", "ssr"} :
         ReceivedIn(pass) # <<>> =>
           /\ ReceivedIn(pass)[1].arg.clientPluginModules = <<>>
           /\ ReceivedIn(pass)[1].arg.serverPluginModules = <<>>

\* C11 amended: at dev start and in each of the two passes of a build (client,
\* then ssr) a fresh config with empty module lists is created, folded through
\* the configureVite hooks and consumed exactly once by createViteEnvironment,
\* and no list content carries over from one fold to the next; when the server
\* is started in production (--preview or NODE_ENV=production) no config is
\* created, no configureVite hook is called and nothing is materialized.
C11_FreshConfigPerFold ==
  /\ \A i, j \in DOMAIN materialized :
       materialized[i].pass = materialized[j].pass => i = j
  /\ \A pass \in {"dev", "client", "ssr"} :
       ReceivedIn(pass) # <<>> =>
         /\ ReceivedIn(pass)[1].arg.clientPluginModules = <<>>
         /\ ReceivedIn(pass)[1].arg.serverPluginModules = <<>>
  /\ \A i \in DOMAIN materialized : \A m \in {"a", "b"} :
       /\ Count(materialized[i].clientPluginModules, m) = PushersOf(m, "client")
       /\ Count(materialized[i].serverPluginModules, m) = PushersOf(m, "server")
  /\ PastMaterialization =>
       MaterializedPasses \in
         (CASE argv.build -> {<<"client">>, <<"client", "ssr">>}
            [] isProduction -> {<<>>}
            [] OTHER -> {<<"dev">>})
  /\ (pc = "done" /\ argv.build) => MaterializedPasses = <<"client", "ssr">>
  /\ (~argv.build /\ isProduction) =>
       /\ received = <<>>
       /\ materialized = <<>>
       /\ toolCalls = <<>>

\* both passes of a build are over, each with a non-empty client list
C11_Witness ==
  /\ argv.build
  /\ pc = "done"
  /\ MaterializedPasses = <<"client", "ssr">>
  /\ materialized[1].clientPluginModules = <<"a", "b">>
  /\ materialized[2].clientPluginModules = <<"a", "b">>

\* ------------------------------------------------------------------ C12
\* <cwd>/.vite/: the scaffold directory the manifest's keys are relative to
ScaffoldDir == cwd \o "/.vite/"

\* The asset list the manifest file states for the entry <cwd>/.vite/<key>
\* (nothing when no key of the file gives the entry).
StatedList(entry) ==
  LET hits == {i \in DOMAIN manifest.entries : ScaffoldDir \o manifest.entries[i].key = entry}
  IN IF hits = {} THEN <<>>
     ELSE manifest.entries[CHOOSE i \in hits : \A j \in hits : j <= i].value

\* The stated lists of the entries from number k on, concatenated.
RECURSIVE StatedLists(_, _)
StatedLists(modules, k) ==
  IF k > Len(modules) THEN <<>> ELSE StatedList(modules[k]) \o StatedLists(modules, k + 1)

\* A call was made without a dev-server handle and without the production
\* flag: through the RuntimeContext of an orchestrator in production, or
\* directly as getDeps(modules, undefined).
CalledWithoutServer ==
  /\ call.via # "none"
  /\ ~call.withServer
  /\ ~call.isProduction
  /\ call.via = "ctx" => isProduction

\* C12: in production (no dev server) the RuntimeContext's getDeps, and getDeps
\* called with no dev-server handle, return for entries <cwd>/.vite/<key> the
\* manifest's asset lists for those keys, concatenated in entry order and
\* deduplicated.
C12_ProductionByManifest ==
  (/\ CalledWithoutServer
   /\ \A i \in DOMAIN call.modules : startsWith(call.modules[i], ScaffoldDir))
  => call.deps = newSet(StatedLists(call.modules, 1))

\* ------------------------------------------------------------------ C13
\* The asset list of the last property of the manifest file whose key, taken
\* relative to <cwd>/.vite, names the path p.
ListUnderScaffoldDir(p) ==
  LET hits == {i \in DOMAIN manifest.entries :
                 normalize(ScaffoldDir \o manifest.entries[i].key) = p}
  IN IF hits = {} THEN <<>>
     ELSE manifest.entries[CHOOSE i \in hits : \A j \in hits : j <= i].value

RECURSIVE ListsUnderScaffoldDir(_, _)
ListsUnderScaffoldDir(modules, k) ==
  IF k > Len(modules) THEN <<>>
  ELSE ListUnderScaffoldDir(normalizeEntry(modules[k])) \o ListsUnderScaffoldDir(modules, k + 1)

\* C13 as stated: in production mode the entries are looked up as keys of the
\* manifest as the file states them: with the manifest {client.ts: [a.js, b.js],
\* admin.ts: [a.js, c.js]} the entries [client.ts, admin.ts] give
\* [a.js, b.js, c.js], with or without a dev-server handle.
C13_KeysAsStated ==
  (loaded = "yes" /\ manifestFile = ExampleManifest) =>
    \A withServer \in BOOLEAN :
      getDeps(<<"client.ts", "admin.ts">>, Handle(withServer), TRUE).deps
        = <<"a.js", "b.js", "c.js">>

\* C13 amended: when getDeps is called with its production flag set, each
\* normalized entry is looked up under the manifest's keys taken relative to
\* <cwd>/.vite (the key client.ts is found by the entry <cwd>/.vite/client.ts,
\* not by the entry client.ts): with the manifest above the entries
\* [<cwd>/.vite/client.ts, <cwd>/.vite/admin.ts] give [a.js, b.js, c.js]; the
\* lookup ignores any dev-server handle and never asks the graph.
C13_KeysUnderScaffoldDir ==
  /\ (call.via # "none" /\ call.isProduction) =>
       /\ call.deps = newSet(ListsUnderScaffoldDir(call.modules, 1))
       /\ call.deps = getDeps(call.modules, Handle(~call.withServer), TRUE).deps
       /\ call.lookups = <<>>
       /\ call.warnings = <<>>
  /\ (loaded = "yes" /\ manifestFile = ExampleManifest) =>
       \A withServer \in BOOLEAN :
         /\ getDeps(<<ScaffoldDir \o "client.ts", ScaffoldDir \o "admin.ts">>,
                    Handle(withServer), TRUE).deps = <<"a.js", "b.js", "c.js">>
         /\ getDeps(<<"client.ts", "admin.ts">>, Handle(withServer), TRUE).deps = <<>>

\* the two entries of the example were resolved with the production flag and a
\* dev-server handle
C13_Witness ==
  /\ manifestFile = ExampleManifest
  /\ call.isProduction
  /\ call.withServer
  /\ call.modules = <<ScaffoldDir \o "client.ts", ScaffoldDir \o "admin.ts">>
  /\ call.deps = <<"a.js", "b.js", "c.js">>

\* ------------------------------------------------------------------ C14
\* The per-entry contributions of the latest call, concatenated in entry order.
RECURSIVE ContributionsFrom(_)
ContributionsFrom(k) ==
  IF k > Len(call.modules) THEN <<>>
  ELSE Contribution(normalizeEntry(call.modules[k]), Handle(call.withServer),
                    call.isProduction).deps
       \o ContributionsFrom(k + 1)

\* the place of the first occurrence of e in s
FirstIndex(s, e) == Min({i \in DOMAIN s : s[i] = e})

\* C14: in either mode the result contains no URL twice, contains exactly the
\* URLs the entries contribute, and lists them in the order of their first
\* occurrence in the concatenation of the per-entry contributions.
C14_DedupFirstOccurrence ==
  call.via # "none" =>
    LET all == ContributionsFrom(1) IN
    /\ \A i, j \in DOMAIN call.deps : call.deps[i] = call.deps[j] => i = j
    /\ Range(call.deps) = Range(all)
    /\ \A i, j \in DOMAIN call.deps :
         i < j => FirstIndex(all, call.deps[i]) < FirstIndex(all, call.deps[j])

\* two entries of a development-mode call contributed a URL both
C14_Witness ==
  /\ call.withServer
  /\ ~call.isProduction
  /\ Len(call.modules) = 2
  /\ Len(call.deps) >= 2
  /\ Len(ContributionsFrom(1)) > Len(call.deps)
  /\ Range(Contribution(normalizeEntry(call.modules[1]), Handle(TRUE), FALSE).deps)
       \cap Range(Contribution(normalizeEntry(call.modules[2]), Handle(TRUE), FALSE).deps) # {}

\* ------------------------------------------------------------------ C15
\* Module n is in the graph and has an id.
Present(g, n) == getModuleById(g, g.ids[n]).kind = "module" /\ HasId(g, n)

\* The modules that can be reached from the set S along import edges.
RECURSIVE ReachableFrom(_, _)
ReachableFrom(g, S) ==
  LET T == S \cup {m \in Nodes : Present(g, m) /\ \E n \in S : m \in Range(g.imports[n])}
  IN IF T = S THEN S ELSE ReachableFrom(g, T)

\* The modules reachable from the entries of the latest call.
Reachable ==
  ReachableFrom(moduleGraph,
                {n \in Nodes : /\ Present(moduleGraph, n)
                               /\ \E i \in DOMAIN call.modules :
                                    normalizeEntry(call.modules[i]) = moduleGraph.ids[n]})

ImportEdges(g) == {<<n, m>> \in Nodes \X Nodes : m \in Range(g.imports[n])}

\* A development-mode call during which no graph lookup raised.
DevCall == call.via # "none" /\ call.withServer /\ ~call.isProduction
DevCallCompleted == DevCall /\ call.warnings = <<>>

\* C15: for every module graph, cycles and self-imports included, a
\* development-mode resolution terminates (the graph is asked at most once per
\* entry and once per import edge for each entry) and the result contains the
\* rewritten id of every module reachable from the entries exactly once, and
\* nothing else.
C15_CyclesTerminate ==
  /\ DevCall =>
       Len(call.lookups) <= Len(call.modules) * (1 + Cardinality(ImportEdges(moduleGraph)))
  /\ DevCallCompleted =>
       /\ Range(call.deps) = {getOptimizedUrl(moduleGraph.ids[n]) : n \in Reachable}
       /\ \A n \in Reachable :
            Cardinality({i \in DOMAIN call.deps :
                           call.deps[i] = getOptimizedUrl(moduleGraph.ids[n])}) = 1

\* the example: A imports B, B imports A and C; A is the entry
C15_Witness ==
  /\ moduleGraph = ExampleGraph
  /\ DevCallCompleted
  /\ call.modules = <<NodeId(1)>>
  /\ call.deps = << "/@fs/app/.vite/client.ts",
                    "/node_modules/.vite/deps/@vue_shared.js",
                    "/@fs/app/node_modules/.vite/deps/x.js" >>

\* ------------------------------------------------------------------ C16
\* Entry number i of the latest call is one whose traversal raises.
FailingEntry(i) ==
  collectDepsDev(moduleGraph, normalizeEntry(call.modules[i]), NewSeen).threw

\* The entries of the latest call without the failing ones.
OtherEntries ==
  LET keep == {i \in DOMAIN call.modules : ~FailingEntry(i)}
  IN [k \in 1..Cardinality(keep) |->
        call.modules[CHOOSE i \in keep : Cardinality({j \in keep : j <= i}) = k]]

\* The failing entries of the latest call from number k on, normalized.
RECURSIVE FailingFrom(_)
FailingFrom(k) ==
  IF k > Len(call.modules) THEN <<>>
  ELSE (IF FailingEntry(k) THEN <<normalizeEntry(call.modules[k])>> ELSE <<>>)
       \o FailingFrom(k + 1)

\* C16: when the graph raises during the traversal of an entry, getDeps does
\* not raise; the entry contributes nothing, not even the modules visited
\* before the failure; one warning naming the entry is logged; and the result
\* is the result of the same call without the failing entries.
C16_FailureIsPerEntry ==
  DevCall =>
    /\ ~call.raised
    /\ call.warnings = FailingFrom(1)
    /\ call.deps = getDeps(OtherEntries, Handle(TRUE), FALSE).deps
    /\ \A i \in DOMAIN call.modules :
         FailingEntry(i) => getDeps(<<call.modules[i]>>, Handle(TRUE), FALSE).deps = <<>>

\* the first entry was entered and failed at the module it imports; the second
\* entry contributed
C16_Witness ==
  /\ DevCall
  /\ moduleGraph = GraphOf({<<1, 3>>}, "throws")
  /\ call.modules = <<NodeId(1), NodeId(2)>>
  /\ call.warnings = <<NodeId(1)>>
  /\ call.lookups = <<NodeId(1), NodeId(3), NodeId(2)>>
  /\ call.deps = <<"/node_modules/.vite/deps/@vue_shared.js">>

\* ------------------------------------------------------------------ C17
\* Entry number i of the latest call has nothing to resolve: in development
\* the graph does not know it or its module has no id; in production no key
\* of the manifest names it.
NothingToResolve(i) ==
  LET p == normalizeEntry(call.modules[i]) IN
  IF call.isProduction
  THEN \A k \in DOMAIN manifest.entries : normalize(ScaffoldDir \o manifest.entries[k].key) # p
  ELSE \/ \A n \in Nodes : moduleGraph.ids[n] # p
       \/ \E n \in Nodes : /\ moduleGraph.ids[n] = p
                           /\ Faulty(moduleGraph, n)
                           /\ moduleGraph.fault \in {"absent", "noid"}

\* The entries of the latest call that have something to resolve.
ResolvableEntries ==
  LET keep == {i \in DOMAIN call.modules : ~NothingToResolve(i)}
  IN [k \in 1..Cardinality(keep) |->
        call.modules[CHOOSE i \in keep : Cardinality({j \in keep : j <= i}) = k]]

\* C17: an entry the graph does not know, an entry whose module has no id, and
\* (in production) an entry the manifest does not name contribute nothing and
\* raise nothing; a call with only such entries, a call with no entries, and a
\* development-mode call without a dev-server handle return the empty list.
C17_AbsentContributesNothing ==
  call.via # "none" =>
    /\ ~call.raised
    /\ (call.isProduction \/ call.withServer) =>
         /\ call.deps = getDeps(ResolvableEntries, Handle(call.withServer), call.isProduction).deps
         /\ call.warnings
              = getDeps(ResolvableEntries, Handle(call.withServer), call.isProduction).warnings
         /\ (\A i \in DOMAIN call.modules : NothingToResolve(i)) =>
              call.deps = <<>> /\ call.warnings = <<>>
    /\ call.modules = <<>> => call.deps = <<>>
    /\ (~call.isProduction /\ ~call.withServer) =>
         call.deps = <<>> /\ call.lookups = <<>> /\ call.warnings = <<>>

\* a development-mode call with an entry the graph does not know and an entry
\* whose module has no id, both looked up
C17_Witness ==
  /\ DevCall
  /\ moduleGraph.fault = "noid"
  /\ call.modules = <<ScaffoldDir \o "admin.ts", NodeId(3)>>
  /\ call.lookups = <<ScaffoldDir \o "admin.ts", NodeId(3)>>
  /\ call.deps = <<>>
  /\ ~call.raised

\* ------------------------------------------------------------------ C18
\* C18: importing preload.ts never fails: with no manifest file, and with a
\* manifest file that is not JSON, the import succeeds and manifestJson is the
\* empty mapping, so that getDeps can be called afterwards.
C18_ManifestLoadNeverFails ==
  /\ loaded # "threw"
  /\ (loaded = "yes" /\ (~manifestFile.exists \/ ~manifestFile.wellFormed)) =>
       manifestJson = <<>>

\* What holds of the load: without a manifest file the import succeeds with
\* the empty mapping; the import fails exactly when the file is not JSON.
C18_AbsentFileIsEmptyMapping ==
  /\ (loaded = "yes" /\ ~manifestFile.exists) => manifestJson = <<>>
  /\ loaded = "threw" <=> (loaded # "no" /\ manifestFile = MalformedFile)

\* ------------------------------------------------------------------ C19
\* The absolute paths of the modules and manifest entries (path form).
PathForms == {NodeId(n) : n \in Nodes} \cup {ScaffoldDir \o "admin.ts"}

\* The path an entry of EntryUniverse stands for.
PathOf(entry) ==
  IF \E p \in PathForms : entry \in {"/@fs" \o p, "file://" \o p}
  THEN CHOOSE p \in PathForms : entry \in {"/@fs" \o p, "file://" \o p}
  ELSE entry

\* The two ways getDeps resolves: by the manifest (production flag, with or
\* without a dev-server handle) and by the graph.
Modes == {[withServer |-> FALSE, isProduction |-> TRUE],
          [withServer |-> TRUE, isProduction |-> TRUE],
          [withServer |-> TRUE, isProduction |-> FALSE]}

Resolve(modules, mode) == getDeps(modules, Handle(mode.withServer), mode.isProduction)

\* C19: for every absolute path p and either mode, the entries '/@fs' + p,
\* 'file://' + p and p resolve to the same result (same URLs, same warnings,
\* same lookups); and each entry of a list is stripped on its own: a list
\* resolves as the list of the paths its entries stand for, and as that list
\* with every entry in /@fs form or in file:// form.
C19_PrefixedEntriesResolveAlike ==
  /\ (loaded = "yes" /\ call = NoCall) =>
       \A p \in PathForms : \A mode \in Modes :
         /\ Resolve(<<"/@fs" \o p>>, mode) = Resolve(<<p>>, mode)
         /\ Resolve(<<"file://" \o p>>, mode) = Resolve(<<p>>, mode)
  /\ call.via # "none" =>
       LET mode == [withServer |-> call.withServer, isProduction |-> call.isProduction]
           paths == [i \in DOMAIN call.modules |-> PathOf(call.modules[i])]
           plain == Resolve(paths, mode)
       IN /\ call.deps = plain.deps
          /\ call.warnings = plain.warnings
          /\ call.lookups = plain.lookups
          /\ Resolve([i \in DOMAIN paths |-> "/@fs" \o paths[i]], mode) = plain
          /\ Resolve([i \in DOMAIN paths |-> "file://" \o paths[i]], mode) = plain

\* a development-mode call with one entry in file:// form and one in path form
\* resolved both
C19_Witness ==
  /\ DevCallCompleted
  /\ call.modules = <<"file://" \o NodeId(1), NodeId(2)>>
  /\ call.lookups[1] = NodeId(1)
  /\ Len(call.deps) = 2
  /\ call.deps = getDeps(<<"/@fs" \o NodeId(1), "/@fs" \o NodeId(2)>>, Handle(TRUE), FALSE).deps

\* ------------------------------------------------------------------- C20
\* The ids a completed development-mode call collected: those of the modules
\* reachable from its entries.
CollectedIds == {moduleGraph.ids[n] : n \in Reachable}

AlreadyOptimized(id) ==
  \/ startsWith(id, "/@id/")
  \/ startsWith(id, "/@fs/")
  \/ startsWith(id, "/node_modules/.vite/deps/")

InCacheDir(id) == includes(id, ".vite/deps")

\* A path holds a parent-directory segment.
HasParentSegment(id) == ".." \in Range(split(id))

\* C20 as stated: in development mode a collected id that is already in
\* optimized URL form, or that names the dependency-optimization cache
\* directory anywhere in its path, is in the result unchanged.
C20_CacheDirUnchanged ==
  DevCallCompleted =>
    \A id \in CollectedIds :
      (AlreadyOptimized(id) \/ InCacheDir(id)) => id \in Range(call.deps)

\* C20 as the code has it: a collected id that is already in optimized URL
\* form is in the result unchanged, also when it lies in a package directory;
\* any other id that names the cache directory is not rewritten to a package
\* URL, it is in the result as the filesystem reference "/@fs" + id and not as
\* itself.
C20_CacheDirAsFsReference ==
  DevCallCompleted =>
    \A id \in CollectedIds :
      /\ AlreadyOptimized(id) => id \in Range(call.deps)
      /\ (~AlreadyOptimized(id) /\ InCacheDir(id)) =>
           /\ ("/@fs" \o id) \in Range(call.deps)
           /\ id \notin Range(call.deps)

\* A imports a virtual module that imports A and a file of the cache directory
C20_Witness ==
  /\ DevCallCompleted
  /\ moduleGraph = [ExampleGraph EXCEPT !.ids[2] = "/@id/virtual:my-plugin"]
  /\ call.modules = <<NodeId(1)>>
  /\ call.deps = << "/@fs/app/.vite/client.ts",
                    "/@id/virtual:my-plugin",
                    "/@fs/app/node_modules/.vite/deps/x.js" >>

\* ------------------------------------------------------------------- C21
\* The directories and the file name an id consists of.
Segments(id) == split(id)

\* The position of the innermost node_modules directory of an id, 0 if none.
InnermostNodeModules(id) ==
  LET at == {k \in DOMAIN Segments(id) : Segments(id)[k] = "node_modules"}
  IN IF at = {} THEN 0 ELSE CHOOSE k \in at : \A j \in at : j <= k

\* The key of the package directory an id lies in: the directory below the
\* innermost node_modules, or scope and name for a scope directory; <<>> for
\* an id that is not a file below a package directory.
PackageKeyOf(id) ==
  LET segs == Segments(id)
      k == InnermostNodeModules(id)
  IN IF k = 0 \/ k + 1 >= Len(segs) THEN <<>>
     ELSE IF SubSeq(segs[k + 1], 1, 1) # "@" THEN <<segs[k + 1]>>
     ELSE IF k + 2 >= Len(segs) THEN <<>>
     ELSE <<segs[k + 1] \o "_" \o segs[k + 2]>>

OptimizedDepsRoot == "/node_modules/.vite/deps/"

HeadToken == "<!--app-head-->"
BodyToken == "<!--app-html-->"

\* Where the one occurrence of a token in a text is.
TokenAt(t, token) == CHOOSE i \in Occurrences(t, token) : TRUE

\* A shell holds each token once, the head token first.
WellFormedShell(t) ==
  /\ Cardinality(Occurrences(t, HeadToken)) = 1
  /\ Cardinality(Occurrences(t, BodyToken)) = 1
  /\ TokenAt(t, HeadToken) < TokenAt(t, BodyToken)

\* C23: generateHTMLTemplate(url, head, body) returns the text of the shell
\* before the head token, the charset and viewport tags, the caller's head, the
\* text of the shell between the tokens, the caller's body and the text of the
\* shell after the body token; a token in the caller's head or body is part of
\* the result as it is.
C23_ShellSplicedOnce ==
  (page.fn = "generateHTMLTemplate" /\ WellFormedShell(page.template)) =>
    /\ ~page.threw
    /\ page.out =
         substring(page.template, 0, TokenAt(page.template, HeadToken))
         \o "<meta charset=\"UTF-8\" />"
         \o "<meta name=\"viewport\" content=\"width=device-width, initial-scale=1.0\" />"
         \o page.head
         \o substring(page.template, TokenAt(page.template, HeadToken) + Len(HeadToken),
                      TokenAt(page.template, BodyToken))
         \o page.body
         \o substring(page.template, TokenAt(page.template, BodyToken) + Len(BodyToken),
                      Len(page.template))

\* in development, with the HMR client injected, a head that holds the body
\* token and a body that holds both tokens
C23_Witness ==
  /\ page.fn = "generateHTMLTemplate"
  /\ vite # 0
  /\ includes(page.template, "/@vite/client")
  /\ page.head = BodyToken
  /\ page.body = "<b><!--app-head--></b><!--app-html-->"
  /\ ~page.threw
  /\ Cardinality(Occurrences(page.out, BodyToken)) = 2
  /\ Cardinality(Occurrences(page.out, HeadToken)) = 1

\* ------------------------------------------------------------------- C24
\* The text between <head> and </head> of a document.
HeadSpan(doc) == splitOn(splitOn(doc, "<head>")[2], "</head>")[1]

\* C24 as stated: generateHeadContent() returns the text between <head> and
\* </head> of the document generateHTMLTemplate produces from the same
\* template for an empty head and an empty body.
C24_HeadOfGeneratedDocument ==
  (page.fn = "generateHeadContent" /\ ~page.threw) =>
    page.out = HeadSpan(generateHTMLTemplate(page.template, "", "").out)

\* ------------------------------------------------------------------- C25
\* C25: serving in production, the production shell has been read at most
\* once however many templating calls were made, every call used the content
\* of that one read, and no call read the scaffold shell or ran a transform;
\* in development every call read the scaffold shell and ran the dev server's
\* HTML transform, and the production shell was never read.
C25_ProductionShellReadOnce ==
  /\ (isProduction /\ vite = 0) =>
       /\ io.distReads <= 1
       /\ io.indexReads = 0 /\ io.transforms = 0
       /\ page.fn # "none" => (page.template = cachedHtml /\ cachedHtml = distIndexHtml)
  /\ vite # 0 =>
       /\ io.transforms = io.calls /\ io.indexReads = io.calls
       /\ io.distReads = 0

\* two calls in production after the one read at startup
C25_Witness ==
  /\ isProduction /\ vite = 0
  /\ io.calls = 2
  /\ io.distReads = 1
  /\ page.fn = "generateHeadContent"
  /\ page.template = CompactIndexHtml

\* ------------------------------------------------------------------- C26
\* The runs of reloadPlugins that await a hook of the given phase.
AwaitingHook(phase) == {r \in 1..MaxRuns : runs[r].pc = phase}

Events(what, name) == {i \in DOMAIN log : log[i][1] = what /\ log[i][2] = name}

\* Materialization or the start of the build tool has failed.
SetupFailed ==
  \E name \in {"createViteEnvironment", "createServer", "build"} : Events("throw", name) # {}

\* C27: once materialization or the start of the build tool has failed,
\* postInitExpress has rejected and the failure is the last thing it did: the
\* router is not mounted on the host, stop() is not called, no initVite or
\* postInitVite hook is called, in dev no middleware is on the router and
\* reloadPlugins never runs, in a build the pass that failed is the last one
\* started: a failed materialization leaves the pass without environment and
\* without build, a failed build is the last build, and nothing of the ssr
\* pass happens after a failure of the client pass.
C27_SetupFailureAborts ==
  SetupFailed =>
    /\ pc = "rejected"
    /\ log[Len(log)][1] = "throw"
    /\ Cardinality(Events("throw", "createViteEnvironment")
                   \cup Events("throw", "createServer") \cup Events("throw", "build")) = 1
    /\ appUse = <<>>
    /\ stopCalls = 0
    /\ Events("call", "initVite") = {} /\ Events("call", "postInitVite") = {}
    /\ ~argv.build => (router = <<>> /\ vite = 0 /\ nRuns = 0
                       /\ Events("call", "reloadPlugins") = {})
    /\ log[Len(log)][3] = foldPass
    /\ \A i \in DOMAIN log : log[i][3] = "ssr" => foldPass = "ssr"
    /\ Len(materialized) <= (IF foldPass = "ssr" THEN 2 ELSE 1)
    /\ IF log[Len(log)][2] = "createViteEnvironment"
       THEN /\ \A i \in DOMAIN materialized : materialized[i].pass # foldPass
            /\ Len(toolCalls) = Len(materialized)
       ELSE /\ materialized[Len(materialized)].pass = foldPass
            /\ toolCalls[Len(toolCalls)].pass = foldPass
            /\ Len(toolCalls) = Len(materialized)

\* the client build of a build run fails after its materialization
C27_Witness ==
  /\ argv.build
  /\ Events("throw", "build") # {}
  /\ foldPass = "client"
  /\ Len(materialized) = 1
  /\ Len(toolCalls) = 1
  /\ registered # <<>>

\* ------------------------------------------------------------------- C28
\* The calls of reloadPlugins made by restartServer.
StartupRuns == Events("call", "reloadPlugins")

\* postInitExpress is past its await of restartServer.
PastRestart == ~argv.build /\ pc \in {"initVite", "postInitVite", "done"}

\* C28: restartServer calls reloadPlugins once, in dev and in production
\* serving, and no run precedes that call; every further run comes from a
\* hot update of the dev server, so there is none in production; whatever
\* the number of runs, the configureVite hooks were each called once and the
\* environment was materialized and the dev server created at most once.
C28_ReloadAtStartupAndOnHotUpdate ==
  /\ Cardinality(StartupRuns) <= 1
  /\ nRuns >= 1 => Cardinality(StartupRuns) = 1
  /\ PastRestart => (Cardinality(StartupRuns) = 1 /\ runs[1].pc = "done")
  /\ (isProduction /\ ~argv.build) => (nRuns <= 1 /\ vite = 0 /\ materialized = <<>>)
  /\ nRuns > 1 => (~isProduction /\ vite # 0)
  /\ ~argv.build =>
       /\ Len(materialized) <= 1
       /\ Len(toolCalls) <= 1
       /\ Len(received) <= Len(hooks.configureViteHooks)
       /\ Cardinality(Events("call", "configureVite")) <= Len(hooks.configureViteHooks)

\* a hot update has started a second run, after one fold and one
\* materialization
C28_Witness ==
  /\ nRuns = 2
  /\ runs[2].pc = "done"
  /\ Len(materialized) = 1
  /\ Len(received) >= 1
  /\ Cardinality(StartupRuns) = 1

\* ------------------------------------------------------------------- C29
\* The files of the scaffold.
Artifacts == {"vite.config.js", "index.html", "client.ts", "clientPlugins.ts", "server.ts"}

\* The alias of the module at 1-based position k of a list: plugin<k - 1>.
PositionalAlias(k) == "plugin" \o Digits[k]

\* The registry module imports the modules of the list under the positional
\* aliases, in order, calls the aliases in that order, and its factory
\* returns one instance per element of the list, in the order of the list.
ModuleFollows(module, modules) ==
  /\ module.imports
       = [k \in DOMAIN modules |-> [alias |-> PositionalAlias(k), from |-> modules[k]]]
  /\ module.calls = [k \in DOMAIN modules |-> PositionalAlias(k)]
  /\ \A j, k \in DOMAIN modules : j # k => PositionalAlias(j) # PositionalAlias(k)
  /\ Factory(module.imports, module.calls) = [threw |-> "none", instances |-> modules]

RegistryFollows(text, modules) == ModuleFollows(ParseRegistry(text), modules)

\* The last call of createViteEnvironment.
LastEnvCall == envCalls[Len(envCalls)]

\* C29: a call of createViteEnvironment leaves ./.vite with exactly the files
\* of the scaffold, the server and the client registry following the lists
\* of the call, position by position, also where a specifier occurs twice;
\* two calls with the same lists leave the same directory.
C29_MaterializeIdempotentAndPositional ==
  /\ envCalls # <<>> =>
       /\ fs = LastEnvCall.fs
       /\ fs.exists
       /\ {f.name : f \in fs.files} = Artifacts
       /\ Cardinality(fs.files) = Cardinality(Artifacts)
       /\ RegistryFollows(readFile(fs, "server.ts"), LastEnvCall.serverPluginModules)
       /\ RegistryFollows(readFile(fs, "clientPlugins.ts"), LastEnvCall.clientPluginModules)
  /\ \A j, k \in DOMAIN envCalls :
       (/\ envCalls[j].serverPluginModules = envCalls[k].serverPluginModules
        /\ envCalls[j].clientPluginModules = envCalls[k].clientPluginModules)
       => envCalls[j].fs = envCalls[k].fs

\* two calls with the same lists, one specifier occurring twice in each
C29_Witness ==
  /\ Len(envCalls) = 2
  /\ envCalls[1].serverPluginModules = <<"a", "b", "a">>
  /\ envCalls[2].serverPluginModules = <<"a", "b", "a">>
  /\ envCalls[1].clientPluginModules = <<"a", "a">>
  /\ envCalls[2].clientPluginModules = <<"a", "a">>
  /\ LoadRegistry(readFile(fs, "server.ts")).instances = <<"a", "b", "a">>
  /\ readFile(fs, "clientPlugins.ts")
       = "import plugin0 from 'a';\nimport plugin1 from 'a';\n\n"
         \o "const getClientPlugins = () => [plugin0(), plugin1()];\n\n"
         \o "export default getClientPlugins;"

\* ------------------------------------------------------------------- C30
\* The plugin provides none of the three hooks.
HookLess(plugin) ==
  plugin.configureVite = "none" /\ ~plugin.initVite /\ ~plugin.postInitVite

\* The plugin provides the named hook.
Provides(plugin, hook) ==
  CASE hook = "configureVite" -> plugin.configureVite # "none"
    [] hook = "initVite" -> plugin.initVite
    [] hook = "postInitVite" -> plugin.postInitVite

\* The calls of hooks of registered plugins in the log of the main flow.
HookCalls ==
  {i \in DOMAIN log : log[i][1] = "call"
                      /\ log[i][2] \in {"configureVite", "initVite", "postInitVite"}}

NoExpress == \A k \in DOMAIN registered : registered[k].name # "express"

\* C30: probing a plugin without hooks answers false; every hook that is
\* called is a hook its plugin provides, so a plugin without hooks is never
\* called; the collected hooks hold no plugin without hooks; init takes the
\* registered list whatever it holds, and without an express plugin the
\* context is built with the default port and the flow is never rejected.
C30_HooklessAndNoExpressTolerated ==
  /\ \A k \in DOMAIN registered :
       /\ pluginHasViteHooks(registered[k]) \in BOOLEAN
       /\ HookLess(registered[k]) => ~pluginHasViteHooks(registered[k])
  /\ \A i \in HookCalls :
       /\ log[i][4] \in DOMAIN registered
       /\ Provides(registered[log[i][4]], log[i][2])
       /\ ~HookLess(registered[log[i][4]])
  /\ \A k \in DOMAIN registered :
       HookLess(registered[k]) =>
         /\ \A j \in DOMAIN hooks.configureViteHooks : hooks.configureViteHooks[j] # k
         /\ \A j \in DOMAIN hooks.initViteHooks : hooks.initViteHooks[j] # k
         /\ \A j \in DOMAIN hooks.postInitViteHooks : hooks.postInitViteHooks[j] # k
  /\ pc # "constructed" => SelectSeq(plugins, LAMBDA p : p.gen = 0) = registered
  /\ (NoExpress /\ initVite.id # 0) => initVite.port = DefaultPort
  /\ pc # "rejected"

\* a list with a plugin without hooks and no express plugin has been
\* started, the hooks of the other plugin having been called
C30_Witness ==
  /\ NoExpress
  /\ \E k \in DOMAIN registered : HookLess(registered[k]) /\ registered[k].name = "bare"
  /\ pc = "done"
  /\ ~argv.build
  /\ HookCalls # {}
  /\ initVite.port = DefaultPort

\* ------------------------------------------------------------------- C31
\* The positions of the plugins named "vite" in a list.
Vites(list) == {k \in DOMAIN list : list[k].name = "vite"}

\* Some call of injectVite has run up to its await or to its end.
Injected == \E c \in DOMAIN injections : injections[c] # "idle"

\* C31: once injectVite has been called, whatever the number of calls and
\* awaits pending, the list holds exactly one plugin named "vite"; a list
\* that held one is unchanged and no orchestrator was created; a list that
\* held none is the given list with one orchestrator appended, created once
\* and initialised with that list.
C31_InjectViteIdempotent ==
  Injected =>
    /\ Cardinality(Vites(hostList)) = 1
    /\ IF HasVite(givenList)
       THEN hostList = givenList /\ orchestrators = <<>>
       ELSE /\ hostList = Append(givenList, ListPlugin("vite", 1))
            /\ orchestrators = <<[plugins |-> hostList]>>

\* three calls on a list without orchestrator, all returned
C31_Witness ==
  /\ \A c \in DOMAIN injections : injections[c] = "done"
  /\ Len(injections) >= 3
  /\ givenList = <<ListPlugin("express", 0), ListPlugin("boot", 0)>>
  /\ Len(hostList) = 3
  /\ Len(orchestrators) = 1

\* ------------------------------------------------------------------- C32
\* The ids entered (added to a visited set, their imports expanded) by the
\* traversals of the entries of the first call from entry k on, in order.
RECURSIVE EnteredFrom(_)
EnteredFrom(k) ==
  IF k > Len(call.modules) THEN <<>>
  ELSE collectDepsDev(moduleGraph, normalizeEntry(call.modules[k]), NewSeen).seen
       \o EnteredFrom(k + 1)

Entered == EnteredFrom(1)

\* C32 as stated: during one development call no module of the graph is
\* entered more than once, whether it is reachable from several entries or
\* listed as an entry more than once.
C32_NoNodeEnteredTwice ==
  DevCall => \A i, j \in DOMAIN Entered : Entered[i] = Entered[j] => i = j

\* ------------------------------------------------------------------- C33
\* The instances of run r that the shared list holds.
Generation(r) == SelectSeq(plugins, LAMBDA p : p.gen = r)

\* C33 as stated: while an init hook of an instance of a run is awaited, the
\* shared list holds every instance of that run, client instances before
\* server instances, and every one of them carries the _vitePlugin marker.
C33_TaggedAndAppendedBeforeInit ==
  \A r \in 1..MaxRuns :
    runs[r].pc = "init" =>
      /\ Len(Generation(r)) = Len(runs[r].all)
      /\ \A k \in DOMAIN runs[r].all : SameObject(Generation(r)[k], runs[r].all[k])
      /\ \A k \in DOMAIN Generation(r) : Generation(r)[k]._vitePlugin

\* ------------------------------------------------------------------- C34
\* An init hook of an injected server instance is awaited.
ServerInitAwaited ==
  \E r \in 1..MaxRuns : runs[r].pc = "init" /\ runs[r].all[runs[r].k].side = "server"

\* C34 as stated: while an init hook of an injected server instance is
\* awaited, generateHTMLTemplate and generateHeadContent called through the
\* RuntimeContext return the templated shell (they do not raise).
C34_TemplatingReadyAtServerInit ==
  ServerInitAwaited =>
    \A kind \in TransformKinds :
      /\ ~generateHTMLTemplate(TemplateFor("/", kind), "<title>t</title>", "<p>hi</p>").threw
      /\ ~generateHeadContent(TemplateFor("/", kind)).threw

\* ------------------------------------------------------------------- C35
\* Run r2 is the latest run and has completed, an earlier run r1 was aborted
\* by a failing hook, and no two runs were in flight at the same time.
CompletedAfterAbort(r1, r2) ==
  /\ r1 < r2
  /\ r2 = nRuns
  /\ runs[r1].pc = "failed"
  /\ runs[r2].pc = "done"
  /\ \A r \in 1..MaxRuns : ~runs[r].overlapped

\* C35 as stated: after a reload that completed after an aborted one, the
\* shared list holds the plugins the host registered and the instances of
\* the completed reload, and no instance of the aborted one.
C35_AbortedGenerationRemoved ==
  \A r1, r2 \in 1..MaxRuns :
    CompletedAfterAbort(r1, r2) =>
      /\ \A k \in DOMAIN plugins : plugins[k].gen \in {0, r2}
      /\ Len(Generation(r2)) = Len(runs[r2].all)

\* ------------------------------------------------------------------- C36
\* The reference traversal: the entries of the first call from entry k on,
\* one visited set being handed from each entry to the next.
RECURSIVE SharedTraversal(_, _)
SharedTraversal(k, acc) ==
  IF k > Len(call.modules) THEN acc
  ELSE SharedTraversal(k + 1,
                       collectDepsDev(moduleGraph, normalizeEntry(call.modules[k]), acc))

\* The elements of s, each at the place of its first occurrence.
FirstOccurrences(s) ==
  LET firsts == SortedSeq({i \in DOMAIN s : \A j \in 1..(i - 1) : s[j] # s[i]})
  IN [k \in DOMAIN firsts |-> s[firsts[k]]]

\* What the reference resolver returns: the rewritten ids of the modules in
\* the order the shared traversal entered them.
ReferenceDeps ==
  FirstOccurrences([i \in DOMAIN SharedTraversal(1, NewSeen).seen |->
                      getOptimizedUrl(SharedTraversal(1, NewSeen).seen[i])])

\* C36: a development call during which no graph lookup raised returns the
\* list the reference resolver returns, in the same order.
C36_SameAsSharedTraversal ==
  DevCallCompleted => call.deps = ReferenceDeps

\* two entries that reach each other, the imported one first
C36_Witness ==
  /\ DevCallCompleted
  /\ moduleGraph = ExampleGraph
  /\ call.modules = <<NodeId(2), NodeId(1)>>
  /\ Len(call.deps) = 3
  /\ Len(Entered) = 6

\* ------------------------------------------------------------------- C37
\* The entries of the list `after` that are objects the list `before` held
\* without the _vitePlugin marker, the marker left aside.
Survivors(before, after) ==
  LET kept == SelectSeq(after, LAMBDA q : \E i \in DOMAIN before :
                                   ~before[i]._vitePlugin /\ SameObject(before[i], q))
  IN [i \in DOMAIN kept |-> [kept[i] EXCEPT !._vitePlugin = FALSE]]

\* The positions of `after` that hold an object `before` did not hold.
Appended(before, after) ==
  {j \in DOMAIN after : \A i \in DOMAIN before : ~SameObject(before[i], after[j])}

ReloadFrame(before, after) ==
  /\ Survivors(before, after) =
       SelectSeq(before, LAMBDA p : p._vitePlugin = FALSE)
  /\ \A j \in Appended(before, after) :
       /\ \A i \in DOMAIN after : i > j => i \in Appended(before, after)
       /\ \A i \in Appended(before, after) :
            after[i].side = "client" /\ after[j].side = "server" => i < j

\* C37: no step removes, replaces or reorders an entry of the shared list that
\* does not carry the _vitePlugin marker; the objects a step adds come after
\* every entry that was there, client instances before server instances.
C37_UnmarkedPluginsKept ==
  [][ReloadFrame(plugins, plugins')]_vars

\* a second run has pushed its instances after a purge that met the registered
\* plugins and an instance of the first run that was not marked yet
C37_Witness ==
  /\ nRuns = 2
  /\ runs[2].pc \in {"init", "postInit", "done"}
  /\ Len(SelectSeq(plugins, LAMBDA p : p.gen = 0)) >= 1
  /\ \E i, j, k \in DOMAIN plugins :
       /\ i < j /\ j < k
       /\ plugins[i].gen = 1
       /\ plugins[j].gen = 2 /\ plugins[j].side = "client"
       /\ plugins[k].gen = 2 /\ plugins[k].side = "server"

RewrittenOnce(id) == getOptimizedUrl(getOptimizedUrl(id)) = getOptimizedUrl(id)

====
